---------------------------- MODULE Spec2Model ----------------------------
(***************************************************************************)
(* Freight quoting service (quote_api.py): distance resolution through the *)
(* Mapbox Directions API with a haversine fallback, the pricing rules of   *)
(* calculate_quote and the assembly of the QuoteResponse.                  *)
(*                                                                         *)
(* Python floats are modelled as exact fixed-point decimals:               *)
(*   coordinates      1/10^4 degree       angles     1/10^6 radian         *)
(*   distance_miles   1/1000 mile         duration   1/3600 hour (second)  *)
(*   weight_lbs       1/10 pound          money      1/10^4 dollar         *)
(*   declared_value   1/100 dollar (its range exceeds the money scale)     *)
(* On these grids every pricing operation is exact; the trigonometric      *)
(* functions are truncated series, rounded toward zero as IEEE rounding is *)
(* sign-symmetric.                                                         *)
(***************************************************************************)
EXTENDS Integers, Sequences, FiniteSets

VARIABLES
    MAPBOX_API_KEY,  \* whether the module-level credential is set (truthy)
    pc,              \* where the handling of the current request stands
    request,         \* the validated QuoteRequest being handled
    response,        \* what requests.get produced for this request
    route_data,      \* the dict get_mapbox_distance returned, None before
    via,             \* which branch produced route_data: "mapbox" or "fallback"
    httpCalls,       \* requests sent to the Directions API for this request
    fallbackCalls,   \* calls of fallback_distance_calculation for this request
    locals,          \* the unrounded locals of calculate_quote, None before
    now,             \* the readings datetime.now() gave calculate_quote, in order
    quote,           \* the QuoteResponse returned, None before
    zip_database,    \* the contents of the module-level dict ZIP_DATABASE
    threads,         \* the frame of create_quote in each thread of the server
    body,            \* the JSON body of the POST being handled
    api_pc,          \* where the handling of that POST stands
    status_code,     \* the status of the HTTP response, 0 before it is sent
    api_quote,       \* the quote in the HTTP response, None without one
    calculate_quote_calls,  \* calls of calculate_quote made for that POST
    data,            \* the dict handed to validate_extraction, None before
    validation,      \* what validate_extraction did with it, None before
    token_file,      \* the credentials pickled in token.pickle, None without the file
    credentials_file,  \* whether credentials.json exists
    creds,           \* GmailOAuthHandler.creds
    service,         \* GmailOAuthHandler.service: the credentials it was built with
    auth_pc,         \* where GmailOAuthHandler.authenticate stands
    continuous,      \* the argument of FreightQuoteAgent.run
    run_pc,          \* where run stands
    iteration,       \* the local iteration of run
    raised,          \* whether the try block of this iteration raised
    unseen,          \* the ids of the messages that are UNSEEN in the INBOX
    emails,          \* the fetched emails the for loop has not reached yet
    attempts,        \* calls of process_email per message since run started
    processed,       \* the messages process_email was called for in this iteration
    failed,          \* the messages whose latest call of process_email returned False
    process          \* the frame of the current call of process_email

(* the frame of one request handled alone *)
quoteVars == <<pc, request, response, route_data, via,
               httpCalls, fallbackCalls, locals, now, quote>>

(* requests handled in parallel by the threads of the server *)
concVars == <<zip_database, threads>>

(* a POST from its JSON body to its HTTP response *)
apiVars == <<body, api_pc, status_code, api_quote, calculate_quote_calls>>

(* validate_extraction applied to one extracted dict *)
valVars == <<data, validation>>

(* GmailOAuthHandler and the two files it reads *)
authVars == <<token_file, credentials_file, creds, service, auth_pc>>

(* FreightQuoteAgent.run and the INBOX it polls *)
agentVars == <<continuous, run_pc, iteration, raised, unseen, emails,
               attempts, processed, failed, process>>

vars == <<MAPBOX_API_KEY, quoteVars, concVars, apiVars, valVars, authVars,
          agentVars>>

exceptQuote == <<concVars, apiVars, valVars, authVars, agentVars>>
exceptConc  == <<quoteVars, apiVars, valVars, authVars, agentVars>>
exceptApi   == <<quoteVars, concVars, valVars, authVars, agentVars>>
exceptVal   == <<MAPBOX_API_KEY, quoteVars, concVars, apiVars, authVars,
                 agentVars>>
exceptAuth  == <<MAPBOX_API_KEY, quoteVars, concVars, apiVars, valVars,
                 agentVars>>
exceptAgent == <<MAPBOX_API_KEY, quoteVars, concVars, apiVars, valVars,
                 authVars>>

---------------------------------------------------------------------------
(* Scales of the fixed-point representation *)

CoordScale  == 10^4
TrigScale   == 10^6
TrigRoot    == 10^3
MileScale   == 10^3
HourScale   == 60 * 60
PoundScale  == 10^1
MoneyScale  == 10^4
CentScale   == 10^2

Miles(n)   == n * MileScale
Hours(n)   == n * HourScale
Pounds(n)  == n * PoundScale
Dollars(n) == n * MoneyScale
Degrees(n) == n * CoordScale

(* Python None; Optional values are sequences of length at most one *)
None    == <<>>
Some(x) == <<x>>

(* The element of a singleton.  Value({e(x) : x \in {a}}) is e(a) with the   *)
(* argument a evaluated once, as Python evaluates the argument of a call.   *)
Value(S) == CHOOSE v \in S : TRUE

Abs(a)    == Value({IF x < 0 THEN -x ELSE x : x \in {a}})
Max(a, b) == Value({IF x >= y THEN x ELSE y : x \in {a}, y \in {b}})
Min(a, b) == Value({IF x <= y THEN x ELSE y : x \in {a}, y \in {b}})

(* a / b rounded toward zero: -(x / b) = (-x) / b as in IEEE arithmetic *)
SDiv(a, b) == Value({IF x >= 0 THEN x \div b ELSE -((-x) \div b) : x \in {a}})

(* floor(a * n / d) for a >= 0, without forming a * n *)
MulDiv(a, n, d) == Value({(x \div d) * n + ((x % d) * n) \div d : x \in {a}})

(* a * b for two fixed-point numbers of scale TrigScale and magnitude at    *)
(* most 1, rounded toward zero; the operands are split so that no partial  *)
(* product leaves the integer range                                        *)
FMul(a, b) ==
    Value({LET xh == x \div TrigRoot
               xl == x % TrigRoot
               yh == y \div TrigRoot
               yl == y % TrigRoot
           IN  s * (xh * yh
                    + ((xh * yl + xl * yh) * TrigRoot + xl * yl) \div TrigScale) :
           x \in {Abs(a)}, y \in {Abs(b)},
           s \in {IF (a < 0) # (b < 0) THEN -1 ELSE 1}})

---------------------------------------------------------------------------
(* ZIP_DATABASE: the rows of the table the model uses (lat, lon in 1/10^4 degree) *)

ZIP_DATABASE ==
    [z \in {"90021", "60601", "77001", "77002", "78701", "75201"} |->
        CASE z = "90021" -> [lat |-> 340407, lon |-> -1182468]
          [] z = "60601" -> [lat |-> 418781, lon |-> -876298]
          [] z = "77001" -> [lat |-> 297604, lon |-> -953698]
          [] z = "77002" -> [lat |-> 297589, lon |-> -953677]
          [] z = "78701" -> [lat |-> 302672, lon |-> -977431]
          [] z = "75201" -> [lat |-> 327767, lon |-> -967970]]

(* five-digit codes absent from ZIP_DATABASE *)
UnknownZips == {"00000"}

Zips == DOMAIN ZIP_DATABASE \cup UnknownZips

---------------------------------------------------------------------------
(* math.radians, math.sin, math.cos, math.sqrt, math.asin *)

Radians(deg) ==
    \* pi / 180 = 0.01745329
    Value({(IF d < 0 THEN -1 ELSE 1)
           * (MulDiv(Abs(d), 1745, 1000) + MulDiv(Abs(d), 329, 1000000)) :
           d \in {deg}})

Sin(a) ==
    Value({LET x2 == FMul(x, x)
               x3 == FMul(x2, x)
               x5 == FMul(x3, x2)
               x7 == FMul(x5, x2)
           IN  x - SDiv(x3, 6) + SDiv(x5, 120) - SDiv(x7, 5040) :
           x \in {a}})

Cos(a) ==
    Value({LET x2 == FMul(x, x)
               x4 == FMul(x2, x2)
               x6 == FMul(x4, x2)
               x8 == FMul(x4, x4)
           IN  TrigScale - SDiv(x2, 2) + SDiv(x4, 24) - SDiv(x6, 720)
               + SDiv(x8, 40320) :
           x \in {a}})

(* r * r <= a as fixed-point numbers, decided exactly (0 <= r <= 1) *)
SquareAtMost(r, a) ==
    LET rh  == r \div TrigRoot
        rl  == r % TrigRoot
        low == (2 * rh * rl) * TrigRoot + rl * rl
        q   == rh * rh + low \div TrigScale
    IN  q < a \/ (q = a /\ low % TrigScale = 0)

RECURSIVE ISqrt(_, _, _)
(* largest r in lo..hi with r * r <= a, by bisection *)
ISqrt(a, lo, hi) ==
    IF lo >= hi THEN lo
    ELSE Value({IF SquareAtMost(mid, a) THEN ISqrt(a, mid, hi)
                ELSE ISqrt(a, lo, mid - 1) :
                mid \in {(lo + hi + 1) \div 2}})

Sqrt(a) == Value({ISqrt(x, 0, TrigScale) : x \in {a}})

Asin(a) ==
    Value({LET y2 == FMul(y, y)
               y3 == FMul(y2, y)
               y5 == FMul(y3, y2)
               y7 == FMul(y5, y2)
               y9 == FMul(y7, y2)
           IN  y + SDiv(y3, 6) + SDiv(3 * y5, 40) + SDiv(15 * y7, 336)
               + SDiv(105 * y9, 3456) :
           y \in {a}})

-----
(* fallback_distance_calculation *)

(* HaversineA with cos(lat1) taken twice *)
HaversineAOneLatitude(lat1, lon1, lat2, lon2) ==
    Value({FMul(sdlat, sdlat) + FMul(FMul(Cos(lat1), Cos(lat1)), FMul(sdlon, sdlon)) :
           sdlat \in {Sin(SDiv(lat2 - lat1, 2))},
           sdlon \in {Sin(SDiv(lon2 - lon1, 2))}})

(* a = sin(dlat/2)**2 + cos(lat1) * cos(lat2) * sin(dlon/2)**2 *)
HaversineA(lat1, lon1, lat2, lon2) ==
    Value({FMul(sdlat, sdlat) + FMul(FMul(Cos(lat1), Cos(lat2)), FMul(sdlon, sdlon)) :
           sdlat \in {Sin(SDiv(lat2 - lat1, 2))},
           sdlon \in {Sin(SDiv(lon2 - lon1, 2))}})

(* c = 2 * asin(sqrt(a)) *)
HaversineC(loc1, loc2) ==
    2 * Asin(Sqrt(HaversineA(Radians(loc1.lat), Radians(loc1.lon),
                             Radians(loc2.lat), Radians(loc2.lon))))

(* fallback_distance_calculation with the Earth radius in kilometres *)
fallback_distance_kilometres(origin_zip, dest_zip) ==
    IF origin_zip \notin DOMAIN ZIP_DATABASE \/ dest_zip \notin DOMAIN ZIP_DATABASE
    THEN [distance_miles |-> Miles(1000),
          duration_hours |-> Hours(16),
          route_geometry |-> None]
    ELSE Value({[distance_miles |-> distance_miles,
                 duration_hours |-> MulDiv(distance_miles, HourScale, 60 * MileScale),
                 route_geometry |-> None] :
                distance_miles \in
                    {MulDiv(HaversineC(ZIP_DATABASE[origin_zip], ZIP_DATABASE[dest_zip]),
                            6371, TrigScale \div MileScale)}})

fallback_distance_calculation(origin_zip, dest_zip) ==
    IF origin_zip \notin DOMAIN ZIP_DATABASE \/ dest_zip \notin DOMAIN ZIP_DATABASE
    THEN [distance_miles |-> Miles(1000),
          duration_hours |-> Hours(16),
          route_geometry |-> None]
    ELSE Value({[distance_miles |-> distance_miles,
                 duration_hours |-> MulDiv(distance_miles, HourScale, 60 * MileScale),
                 route_geometry |-> None] :
                distance_miles \in
                    {MulDiv(HaversineC(ZIP_DATABASE[origin_zip], ZIP_DATABASE[dest_zip]),
                            3959, TrigScale \div MileScale)}})

(* fallback_distance_calculation is a pure function of the two codes: its   *)
(* values over the codes of the model, computed once                        *)
Fallback ==
    [origin_zip \in Zips, dest_zip \in Zips |->
        fallback_distance_calculation(origin_zip, dest_zip)]

---------------------------------------------------------------------------
(* The Mapbox Directions API as get_mapbox_distance sees it: requests.get   *)
(* raises, or returns a response with a status code and a body.  A route    *)
(* carries the keys it has; distance is in metres, duration in seconds.     *)

NoResponse ==
    [raised |-> "", status_code |-> 0, json_ok |-> FALSE, routes |-> <<>>]

RouteKeys == {"distance", "duration", "geometry"}

Route(m, sec) == [keys |-> RouteKeys, distance |-> m, duration |-> sec]

GoodRoutes == {Route(3243431, 104400), Route(3400000, 208800)}

MalformedRoute == [keys |-> {"duration", "geometry"}, distance |-> 0, duration |-> 60]

(* float('inf'): what response.json() gives for a number beyond the range   *)
(* of a float, such as 1e999                                                *)
Infinity == 2^30

(* a route whose duration is such a number *)
UnboundedRoute == Route(3243431, Infinity)

ServiceOutcomes ==
    {[raised |-> e, status_code |-> 0, json_ok |-> FALSE, routes |-> <<>>] :
        e \in {"ConnectionError", "Timeout"}}
    \cup {[raised |-> "", status_code |-> 200, json_ok |-> FALSE, routes |-> <<>>]}
    \cup {[raised |-> "", status_code |-> 200, json_ok |-> TRUE, routes |-> rs] :
            rs \in {<<>>, <<MalformedRoute>>, <<UnboundedRoute>>}
                   \cup {<<r>> : r \in GoodRoutes}}
    \cup {[raised |-> "", status_code |-> 500, json_ok |-> TRUE,
           routes |-> <<Route(3400000, 208800)>>]}

(* route['distance'] * 0.000621371 *)
MetersToMiles(m) == MulDiv(m, 621371, 1000) \div (10^9 \div (1000 * MileScale))

(* route['duration'] / 3600 *)
SecondsToHours(sec) ==
    IF sec = Infinity THEN Infinity ELSE MulDiv(sec, HourScale, 3600)

(* the exception raised inside the try block of get_mapbox_distance, "" if none *)
ExceptionInTry(resp) ==
    IF resp.raised # "" THEN resp.raised
    ELSE IF resp.status_code # 200 THEN ""
    ELSE IF ~resp.json_ok THEN "ValueError"
    ELSE IF resp.routes # <<>> /\ ~(RouteKeys \subseteq resp.routes[1].keys)
         THEN "KeyError"
    ELSE ""

(* CaughtByExcept for except requests.RequestException *)
CaughtRequestExceptionOnly(exc) == exc \in {"ConnectionError", "Timeout"}

(* except Exception: every exception class above derives from Exception *)
CaughtByExcept(exc) ==
    exc \in {"ConnectionError", "Timeout", "ValueError", "KeyError", "TypeError"}

(* DirectionsResult ignoring the route the service returned *)
DirectionsResultAlwaysFallback(resp, origin_zip, dest_zip) ==
    [raises |-> FALSE, used |-> "fallback",
     data |-> Fallback[origin_zip, dest_zip]]

(* DirectionsResult answering an exception with the fixed placeholder *)
DirectionsResultPlaceholderOnException(resp, origin_zip, dest_zip) ==
    IF ExceptionInTry(resp) # ""
    THEN [raises |-> FALSE, used |-> "fallback",
          data |-> [distance_miles |-> Miles(1000), duration_hours |-> Hours(16),
                    route_geometry |-> None]]
    ELSE IF resp.status_code = 200 /\ Len(resp.routes) > 0
    THEN [raises |-> FALSE, used |-> "mapbox",
          data |-> [distance_miles |-> MetersToMiles(resp.routes[1].distance),
                    duration_hours |-> SecondsToHours(resp.routes[1].duration),
                    route_geometry |-> Some("geojson")]]
    ELSE [raises |-> FALSE, used |-> "fallback",
          data |-> Fallback[origin_zip, dest_zip]]

(* the try/except of get_mapbox_distance applied to the outcome of requests.get *)
DirectionsResult(resp, origin_zip, dest_zip) ==
    LET exc == ExceptionInTry(resp)
    IN  IF exc # ""
        THEN IF CaughtByExcept(exc)
             THEN [raises |-> FALSE, used |-> "fallback",
                   data |-> Fallback[origin_zip, dest_zip]]
             ELSE [raises |-> TRUE, used |-> "none",
                   data |-> Fallback[origin_zip, dest_zip]]
        ELSE IF resp.status_code = 200 /\ Len(resp.routes) > 0
        THEN [raises |-> FALSE, used |-> "mapbox",
              data |-> [distance_miles |-> MetersToMiles(resp.routes[1].distance),
                        duration_hours |-> SecondsToHours(resp.routes[1].duration),
                        route_geometry |-> Some("geojson")]]
        ELSE [raises |-> FALSE, used |-> "fallback",
              data |-> Fallback[origin_zip, dest_zip]]

---------------------------------------------------------------------------
(* Strings of special_services are sequences of characters *)

UpperCase == <<"A", "B", "C", "D", "E", "F", "G", "H", "I", "J", "K", "L", "M",
               "N", "O", "P", "Q", "R", "S", "T", "U", "V", "W", "X", "Y", "Z">>
LowerCase == <<"a", "b", "c", "d", "e", "f", "g", "h", "i", "j", "k", "l", "m",
               "n", "o", "p", "q", "r", "s", "t", "u", "v", "w", "x", "y", "z">>

(* str.lower() *)
Lower(str) ==
    Value({[i \in 1..Len(t) |->
               IF \E k \in 1..Len(UpperCase) : UpperCase[k] = t[i]
               THEN LowerCase[CHOOSE k \in 1..Len(UpperCase) : UpperCase[k] = t[i]]
               ELSE t[i]] :
           t \in {str}})

(* str.replace(old, new) for single characters *)
Replace(str, old, new) ==
    Value({[i \in 1..Len(t) |-> IF t[i] = old THEN new ELSE t[i]] : t \in {str}})

(* x in list *)
In(x, list) == Value({(\E i \in 1..Len(l) : l[i] = x) : l \in {list}})

liftgate        == <<"l", "i", "f", "t", "g", "a", "t", "e">>
Liftgate        == <<"L", "i", "f", "t", "g", "a", "t", "e">>
lift_gate       == <<"l", "i", "f", "t", " ", "g", "a", "t", "e">>
climate_control == <<"c", "l", "i", "m", "a", "t", "e", "_",
                     "c", "o", "n", "t", "r", "o", "l">>
Climate_Control == <<"C", "l", "i", "m", "a", "t", "e", " ",
                     "C", "o", "n", "t", "r", "o", "l">>

(* [s.lower().replace(" ", "_") for s in request.special_services] *)
NormalizedServices(special_services) ==
    Value({[i \in 1..Len(l) |-> Replace(Lower(l[i]), " ", "_")] :
           l \in {special_services}})

---------------------------------------------------------------------------
(* round(x, ndigits): to the nearest multiple of q, ties to the even multiple *)
Round(x, q) ==
    Value({IF 2 * (x - lo) < q THEN lo
           ELSE IF 2 * (x - lo) > q THEN lo + q
           ELSE IF (lo \div q) % 2 = 0 THEN lo ELSE lo + q :
           lo \in {(x \div q) * q}})

(* Round2 truncating to the cent *)
Round2Truncated(x) == (x \div (MoneyScale \div 100)) * (MoneyScale \div 100)

(* round(x, 2) of a currency amount *)
Round2(x) == Round(x, MoneyScale \div 100)

(* math.ceil(a / b) for a >= 0, b > 0 *)
Ceil(a, b) == (a + b - 1) \div b

---------------------------------------------------------------------------
(* generate_static_map_url *)

(* Zoom with the thresholds included in the lower tier *)
ZoomInclusive(max_diff) ==
    IF max_diff <= Degrees(1) THEN 8
    ELSE IF max_diff <= Degrees(3) THEN 6
    ELSE IF max_diff <= Degrees(7) THEN 5
    ELSE IF max_diff <= Degrees(15) THEN 4
    ELSE 3

Zoom(max_diff) ==
    IF max_diff < Degrees(1) THEN 8
    ELSE IF max_diff < Degrees(3) THEN 6
    ELSE IF max_diff < Degrees(7) THEN 5
    ELSE IF max_diff < Degrees(15) THEN 4
    ELSE 3

(* generate_static_map_url without the test of the credential *)
generate_static_map_url_without_key(key, origin_zip, dest_zip, route_geometry) ==
    IF origin_zip \notin DOMAIN ZIP_DATABASE \/ dest_zip \notin DOMAIN ZIP_DATABASE
    THEN None
    ELSE Some([markers |-> <<ZIP_DATABASE[origin_zip], ZIP_DATABASE[dest_zip]>>,
               path    |-> route_geometry # None /\ key,
               center  |-> [lon |-> SDiv(ZIP_DATABASE[origin_zip].lon
                                         + ZIP_DATABASE[dest_zip].lon, 2),
                            lat |-> SDiv(ZIP_DATABASE[origin_zip].lat
                                         + ZIP_DATABASE[dest_zip].lat, 2)],
               zoom    |-> 3])

generate_static_map_url(key, origin_zip, dest_zip, route_geometry) ==
    IF ~key THEN None
    ELSE IF origin_zip \notin DOMAIN ZIP_DATABASE \/ dest_zip \notin DOMAIN ZIP_DATABASE
    THEN None
    ELSE LET origin   == ZIP_DATABASE[origin_zip]
             dest     == ZIP_DATABASE[dest_zip]
             lon_diff == Abs(origin.lon - dest.lon)
             lat_diff == Abs(origin.lat - dest.lat)
             max_diff == Max(lon_diff, lat_diff)
         IN  Some([markers |-> <<origin, dest>>,
                   path    |-> route_geometry # None /\ key,
                   center  |-> [lon |-> SDiv(origin.lon + dest.lon, 2),
                                lat |-> SDiv(origin.lat + dest.lat, 2)],
                   zoom    |-> Zoom(max_diff)])

---------------------------------------------------------------------------
(* calculate_quote, from the resolved route_data to the QuoteResponse *)

(* BaseRate without the minimum *)
BaseRateNoFloor(distance, weight_lbs) ==
    MulDiv(distance, 2 * MoneyScale, MileScale)
    + MulDiv(weight_lbs, MoneyScale, 2 * PoundScale)

(* base_rate = max(distance * 2.0 + weight_lbs * 0.50, 500.0) *)
BaseRate(distance, weight_lbs) ==
    Max(MulDiv(distance, 2 * MoneyScale, MileScale)
        + MulDiv(weight_lbs, MoneyScale, 2 * PoundScale),
        Dollars(500))

(* fuel_surcharge = base_rate * 0.15 *)
FuelSurcharge(base_rate) == MulDiv(base_rate, 15, 100)

(* LiftgateFee matching on the normalized names *)
LiftgateFeeNormalized(special_services) ==
    IF In(liftgate, NormalizedServices(special_services)) THEN Dollars(75) ELSE 0

LiftgateFee(special_services) ==
    IF In(liftgate, special_services) THEN Dollars(75) ELSE 0

(* ClimateControlFee matching on the names as given *)
ClimateControlFeeLiteral(special_services) ==
    IF In(climate_control, special_services) THEN Dollars(150) ELSE 0

ClimateControlFee(special_services) ==
    IF In(climate_control, NormalizedServices(special_services))
    THEN Dollars(150) ELSE 0

(* declared_value = (weight_lbs / 100) * 5000, in cents *)
DeclaredValue(weight_lbs) == MulDiv(weight_lbs, 5000 * CentScale, 100 * PoundScale)

(* Insurance on whole hundredweights: (weight_lbs // 100) * 5000 * 0.025 *)
InsuranceWholeHundredweight(weight_lbs) ==
    (weight_lbs \div (100 * PoundScale)) * 125 * MoneyScale

(* insurance = declared_value * 0.025 *)
Insurance(weight_lbs) ==
    MulDiv(DeclaredValue(weight_lbs), 25 * (MoneyScale \div CentScale), 1000)

(* TotalCost leaving out the climate control fee *)
TotalCostNoClimate(base_rate, fuel_surcharge, liftgate_fee, climate_control_fee, insurance) ==
    base_rate + fuel_surcharge + liftgate_fee + insurance

TotalCost(base_rate, fuel_surcharge, liftgate_fee, climate_control_fee, insurance) ==
    base_rate + fuel_surcharge + liftgate_fee + climate_control_fee + insurance

(* TransitDays truncating instead of rounding up *)
TransitDaysTruncated(duration_hours) ==
    Max(1, Min(7, duration_hours \div (8 * HourScale)))

(* math.ceil(duration_hours / 8) raises OverflowError on an infinite        *)
(* duration; nothing else in calculate_quote raises on it                   *)
CalculateQuoteRaises(rd) == rd.duration_hours = Infinity

(* transit_days = max(1, min(7, int(math.ceil(duration_hours / 8)))) *)
TransitDays(duration_hours) ==
    Max(1, Min(7, Ceil(duration_hours, 8 * HourScale)))

(* EquipmentType testing the climate control request before the weight *)
EquipmentTypeClimateFirst(weight_lbs, special_services) ==
    IF In(climate_control, NormalizedServices(special_services)) THEN "reefer"
    ELSE IF weight_lbs > Pounds(10000) THEN "flatbed"
    ELSE "dry_van"

EquipmentType(weight_lbs, special_services) ==
    IF weight_lbs > Pounds(10000) THEN "flatbed"
    ELSE IF In(climate_control, NormalizedServices(special_services)) THEN "reefer"
    ELSE "dry_van"

(* Pricing with the fuel surcharge taken before the minimum is applied *)
PricingFuelBeforeFloor(req, rd) ==
    Value({
        [distance            |-> rd.distance_miles,
         duration_hours      |-> rd.duration_hours,
         base_rate           |-> base_rate,
         fuel_surcharge      |-> fuel_surcharge,
         liftgate_fee        |-> liftgate_fee,
         climate_control_fee |-> climate_control_fee,
         insurance           |-> insurance,
         total_cost          |-> TotalCost(base_rate, fuel_surcharge, liftgate_fee,
                                           climate_control_fee, insurance),
         transit_days        |-> TransitDays(rd.duration_hours),
         equipment_type      |-> EquipmentType(req.weight_lbs, req.special_services)] :
        base_rate           \in {BaseRate(rd.distance_miles, req.weight_lbs)},
        fuel_surcharge      \in {FuelSurcharge(BaseRateNoFloor(rd.distance_miles,
                                                               req.weight_lbs))},
        liftgate_fee        \in {LiftgateFee(req.special_services)},
        climate_control_fee \in {ClimateControlFee(req.special_services)},
        insurance           \in {Insurance(req.weight_lbs)}})

(* Pricing charging the climate control fee on reefer shipments only *)
PricingClimateFeeOnReefer(req, rd) ==
    Value({
        [distance            |-> rd.distance_miles,
         duration_hours      |-> rd.duration_hours,
         base_rate           |-> base_rate,
         fuel_surcharge      |-> fuel_surcharge,
         liftgate_fee        |-> liftgate_fee,
         climate_control_fee |-> climate_control_fee,
         insurance           |-> insurance,
         total_cost          |-> TotalCost(base_rate, fuel_surcharge, liftgate_fee,
                                           climate_control_fee, insurance),
         transit_days        |-> TransitDays(rd.duration_hours),
         equipment_type      |-> EquipmentType(req.weight_lbs, req.special_services)] :
        base_rate           \in {BaseRate(rd.distance_miles, req.weight_lbs)},
        fuel_surcharge      \in {FuelSurcharge(BaseRate(rd.distance_miles, req.weight_lbs))},
        liftgate_fee        \in {LiftgateFee(req.special_services)},
        climate_control_fee \in {IF EquipmentType(req.weight_lbs, req.special_services)
                                     = "reefer"
                                 THEN ClimateControlFee(req.special_services) ELSE 0},
        insurance           \in {Insurance(req.weight_lbs)}})

(* the locals of calculate_quote, unrounded *)
Pricing(req, rd) ==
    Value({
        [distance            |-> rd.distance_miles,
         duration_hours      |-> rd.duration_hours,
         base_rate           |-> base_rate,
         fuel_surcharge      |-> fuel_surcharge,
         liftgate_fee        |-> liftgate_fee,
         climate_control_fee |-> climate_control_fee,
         insurance           |-> insurance,
         total_cost          |-> TotalCost(base_rate, fuel_surcharge, liftgate_fee,
                                           climate_control_fee, insurance),
         transit_days        |-> TransitDays(rd.duration_hours),
         equipment_type      |-> EquipmentType(req.weight_lbs, req.special_services)] :
        base_rate           \in {BaseRate(rd.distance_miles, req.weight_lbs)},
        fuel_surcharge      \in {FuelSurcharge(BaseRate(rd.distance_miles, req.weight_lbs))},
        liftgate_fee        \in {LiftgateFee(req.special_services)},
        climate_control_fee \in {ClimateControlFee(req.special_services)},
        insurance           \in {Insurance(req.weight_lbs)}})

(* datetime.now(): a reading of the wall clock, in ticks since midnight *)
TicksPerSecond == 2

(* the readings the model draws from: 00:01:11.0, 00:01:11.5 and 00:11:01.0 *)
ClockReadings ==
    {(60 + 11) * TicksPerSecond, (60 + 11) * TicksPerSecond + 1,
     (11 * 60 + 1) * TicksPerSecond}

DigitChars == <<"0", "1", "2", "3", "4", "5", "6", "7", "8", "9">>

(* %H, %M, %S: a number below 100 as two digits *)
TwoDigits(n) == <<DigitChars[(n \div 10) + 1], DigitChars[(n % 10) + 1]>>

(* StrfTime without zero padding *)
StrfTimeUnpadded(t) ==
    LET Unpadded(n) ==
            IF n < 10 THEN <<DigitChars[n + 1]>>
            ELSE <<DigitChars[(n \div 10) + 1], DigitChars[(n % 10) + 1]>>
    IN  Value({Unpadded(s \div 3600) \o Unpadded((s \div 60) % 60)
                   \o Unpadded(s % 60) :
               s \in {t \div TicksPerSecond}})

(* now.strftime('%Y%m%d-%H%M%S') within one day: the fraction of the second *)
(* is dropped                                                               *)
StrfTime(t) ==
    Value({TwoDigits(s \div 3600) \o TwoDigits((s \div 60) % 60) \o TwoDigits(s % 60) :
           s \in {t \div TicksPerSecond}})

(* quote_id = f"QT-{datetime.now().strftime('%Y%m%d-%H%M%S')}" *)
QuoteId(t) == <<"Q", "T", "-">> \o StrfTime(t)

(* valid_until: datetime.now() + timedelta(days=7), at full resolution *)
ValidUntil(t) == t + 7 * 24 * 3600 * TicksPerSecond

(* the QuoteResponse built from the locals and the two clock readings *)
QuoteResponse(key, req, rd, readings) ==
    Value({
        [quote_id       |-> QuoteId(readings[1]),
         valid_until    |-> ValidUntil(readings[2]),
         total_cost     |-> Round2(l.total_cost),
         breakdown      |-> [base_rate           |-> Round2(l.base_rate),
                             fuel_surcharge      |-> Round2(l.fuel_surcharge),
                             liftgate_fee        |-> l.liftgate_fee,
                             insurance           |-> Round2(l.insurance),
                             climate_control_fee |-> l.climate_control_fee],
         transit_days   |-> l.transit_days,
         equipment_type |-> l.equipment_type,
         terms          |-> "Payment due upon delivery",
         distance_miles |-> Round(l.distance, MileScale \div 10),
         duration_hours |-> Round(l.duration_hours, HourScale \div 10),
         route_map_url  |-> generate_static_map_url(key, req.origin_zip,
                                                    req.destination_zip, rd.route_geometry)] :
        l \in {Pricing(req, rd)}})

---------------------------------------------------------------------------
(* Requests accepted by the QuoteRequest validation *)

MaxServices == 2

ServiceNames == {liftgate, Liftgate, lift_gate, climate_control, Climate_Control}

ServiceLists == UNION {[1..k -> ServiceNames] : k \in 0..MaxServices}

Weights == {1, Pounds(800), Pounds(10000), Pounds(50000)}

(* a plain shipment between every pair of codes, and every weight and list  *)
(* of services on a zero-length, a long and an unresolvable route           *)
Requests ==
    [origin_zip       : Zips,
     destination_zip  : Zips,
     weight_lbs       : {Pounds(800)},
     special_services : {<<>>}]
    \cup
    [origin_zip       : {"90021"},
     destination_zip  : {"90021", "60601", "00000"},
     weight_lbs       : Weights,
     special_services : ServiceLists]

NoRequest ==
    [origin_zip |-> "", destination_zip |-> "", weight_lbs |-> 0,
     special_services |-> <<>>]

(* InDatabase looking at the origin alone *)
InDatabaseOriginOnly(req) == req.origin_zip \in DOMAIN ZIP_DATABASE

InDatabase(req) ==
    req.origin_zip \in DOMAIN ZIP_DATABASE /\ req.destination_zip \in DOMAIN ZIP_DATABASE

---------------------------------------------------------------------------
(* Requests handled in parallel.  create_quote is a plain def, which the    *)
(* server runs in a thread of its pool: every thread has its own frame and  *)
(* all of them read the module-level MAPBOX_API_KEY and ZIP_DATABASE.       *)

MaxThreads == 2

Threads == 1..MaxThreads

IdleFrame ==
    [pc |-> "idle", request |-> NoRequest, response |-> NoResponse,
     route_data |-> None, now |-> <<>>, quote |-> None]

ConcIdle ==
    /\ zip_database = ZIP_DATABASE
    /\ threads = [t \in Threads |-> IdleFrame]

(* the requests, the answers of the Directions API and the clock readings   *)
(* the threads draw from                                                    *)
ThreadRequests ==
    {[origin_zip |-> "90021", destination_zip |-> "60601",
      weight_lbs |-> Pounds(800), special_services |-> <<>>],
     [origin_zip |-> "90021", destination_zip |-> "00000",
      weight_lbs |-> Pounds(800), special_services |-> <<liftgate>>],
     [origin_zip |-> "60601", destination_zip |-> "90021",
      weight_lbs |-> Pounds(50000), special_services |-> <<climate_control>>]}

ThreadOutcomes ==
    {o \in ServiceOutcomes :
        \/ o.raised = "ConnectionError"
        \/ o.status_code = 200 /\ o.routes # <<>>}

ThreadReadings == {<<(60 + 11) * TicksPerSecond, (60 + 11) * TicksPerSecond + 1>>}

(* fallback_distance_calculation reading the dict as it is at the call *)
FallbackIn(db, origin_zip, dest_zip) ==
    IF origin_zip \notin DOMAIN db \/ dest_zip \notin DOMAIN db
    THEN [distance_miles |-> Miles(1000),
          duration_hours |-> Hours(16),
          route_geometry |-> None]
    ELSE Value({[distance_miles |-> distance_miles,
                 duration_hours |-> MulDiv(distance_miles, HourScale, 60 * MileScale),
                 route_geometry |-> None] :
                distance_miles \in
                    {MulDiv(HaversineC(db[origin_zip], db[dest_zip]),
                            3959, TrigScale \div MileScale)}})

(* the QuoteResponse a request yields when it is handled alone, given the   *)
(* answer of the Directions API and the clock readings; None when           *)
(* calculate_quote raises                                                   *)
QuoteAlone(key, req, resp, readings) ==
    Value({IF CalculateQuoteRaises(rd) THEN None
           ELSE Some(QuoteResponse(key, req, rd, readings)) :
           rd \in {IF key /\ InDatabase(req)
                   THEN DirectionsResult(resp, req.origin_zip, req.destination_zip).data
                   ELSE Fallback[req.origin_zip, req.destination_zip]}})

---------------------------------------------------------------------------
(* POST /api/v1/quote as the server handles it: the JSON body is validated  *)
(* against QuoteRequest before create_quote is called.  A body is a record  *)
(* of its keys, each an Optional: None for a key that is absent (or null,   *)
(* which is rejected alike).  Zip codes are sequences of characters and     *)
(* numbers are on the grids of the pricing.                                 *)

(* the zip codes of the bodies as dict keys *)
ZipKeys ==
    [chars \in {<<"9", "0", "0", "2", "1">>, <<"6", "0", "6", "0", "1">>,
                <<"0", "0", "0", "0", "0">>} |->
        CASE chars = <<"9", "0", "0", "2", "1">> -> "90021"
          [] chars = <<"6", "0", "6", "0", "1">> -> "60601"
          [] chars = <<"0", "0", "0", "0", "0">> -> "00000"]

(* None or one of the values *)
Optional(S) == {None} \cup {Some(x) : x \in S}

Bodies ==
    [origin_zip       : Optional(DOMAIN ZipKeys \cup {<<"9", "0", "0", "2">>,
                                                       <<"9", "0", "0", "2", "1", "0">>,
                                                       <<"9", "0", "0", "2", "a">>}),
     destination_zip  : Optional({<<"6", "0", "6", "0", "1">>,
                                  <<"0", "0", "0", "0", "0">>, <<"6", "0", "6", "0">>}),
     weight_lbs       : Optional({Pounds(-100), 0, 1, Pounds(800), Pounds(50000),
                                  Pounds(50000) + 1}),
     pieces           : Optional({-1, 0, 1, 2, 100, 101}),
     dimensions       : Optional({[length |-> 48, width |-> 40, height |-> 60],
                                  [length |-> 0, width |-> 40, height |-> 60],
                                  [length |-> 48, width |-> -1, height |-> 60],
                                  [length |-> 48, width |-> 40, height |-> 0]}),
     special_services : {Some(<<liftgate>>)},
     pickup_date      : {Some("2025-11-19")},
     commodity        : {Some("electronics")}]
    \cup
    [origin_zip       : {Some(<<"9", "0", "0", "2", "1">>)},
     destination_zip  : {Some(<<"6", "0", "6", "0", "1">>)},
     weight_lbs       : {Some(Pounds(800))},
     pieces           : {Some(2)},
     dimensions       : {Some([length |-> 48, width |-> 40, height |-> 60])},
     special_services : Optional({<<>>, <<climate_control>>}),
     pickup_date      : Optional({"2025-11-19"}),
     commodity        : Optional({"electronics"})]

NoBody ==
    [origin_zip |-> None, destination_zip |-> None, weight_lbs |-> None,
     pieces |-> None, dimensions |-> None, special_services |-> None,
     pickup_date |-> None, commodity |-> None]

(* pattern=r'^\d{5}$' *)
FiveDigits(str) ==
    /\ Len(str) = 5
    /\ \A i \in 1..Len(str) : \E d \in 1..Len(DigitChars) : str[i] = DigitChars[d]

(* QuoteRequestValid with ge=0 for weight_lbs *)
QuoteRequestValidZeroWeight(b) ==
    /\ b.origin_zip # None /\ FiveDigits(b.origin_zip[1])
    /\ b.destination_zip # None /\ FiveDigits(b.destination_zip[1])
    /\ b.weight_lbs # None /\ b.weight_lbs[1] >= 0 /\ b.weight_lbs[1] <= Pounds(50000)
    /\ b.pieces # None /\ b.pieces[1] > 0 /\ b.pieces[1] <= 100
    /\ b.dimensions # None
    /\ \A side \in {"length", "width", "height"} : b.dimensions[1][side] > 0
    /\ b.pickup_date # None
    /\ b.commodity # None

(* the validation of a body against QuoteRequest and DimensionsModel: every *)
(* field but special_services is required                                   *)
QuoteRequestValid(b) ==
    /\ b.origin_zip # None /\ FiveDigits(b.origin_zip[1])
    /\ b.destination_zip # None /\ FiveDigits(b.destination_zip[1])
    /\ b.weight_lbs # None /\ b.weight_lbs[1] > 0 /\ b.weight_lbs[1] <= Pounds(50000)
    /\ b.pieces # None /\ b.pieces[1] > 0 /\ b.pieces[1] <= 100
    /\ b.dimensions # None
    /\ \A side \in {"length", "width", "height"} : b.dimensions[1][side] > 0
    /\ b.pickup_date # None
    /\ b.commodity # None

(* the QuoteRequest built from a valid body, as the pricing reads it;       *)
(* special_services defaults to the empty list                              *)
QuoteRequestOf(b) ==
    [origin_zip       |-> ZipKeys[b.origin_zip[1]],
     destination_zip  |-> ZipKeys[b.destination_zip[1]],
     weight_lbs       |-> b.weight_lbs[1],
     special_services |-> IF b.special_services = None THEN <<>>
                          ELSE b.special_services[1]]

ApiIdle ==
    /\ body = NoBody
    /\ api_pc = "idle"
    /\ status_code = 0
    /\ api_quote = None
    /\ calculate_quote_calls = 0

---------------------------------------------------------------------------
(* Extracted shipment data (llm_extractor.py) *)

(* a value of the parsed JSON: kind is "null", "str", "num" or "obj";     *)
(* "absent" stands for a key the enclosing dict does not have              *)
Json(kind, value) == <<kind, value>>

(* dicts json.loads can hand over: every key may be absent, null, of the   *)
(* wrong type or out of range                                               *)
ExtractedData ==
    LET null   == Json("null", None)
        absent == Json("absent", None)
        origins ==
            {absent, null, Json("str", "Los Angeles, CA 90021")} \cup
            {Json("obj", [zip |-> z]) :
                z \in {absent, null, Json("str", ""), Json("str", "90021"),
                       Json("str", "9002"), Json("num", 90021)}}
        destinations ==
            {absent, null} \cup
            {Json("obj", [zip |-> z]) :
                z \in {null, Json("str", "60601"), Json("str", "Chicago")}}
        weights ==
            {absent, null, Json("str", ""), Json("str", "800 lbs")} \cup
            {Json("num", n) : n \in {0, -5, 800, 60000}}
        pieces ==
            {null, Json("str", "2 pallets")} \cup
            {Json("num", n) : n \in {0, -1, 2, 500}}
        dimensions ==
            {null, Json("obj", [length |-> Json("num", -48)])}
        cargos ==
            {absent, null} \cup
            {Json("obj", [weight_lbs |-> w, pieces |-> p, dimensions |-> d]) :
                w \in weights, p \in pieces, d \in dimensions}
    IN  [origin : origins, destination : destinations, cargo : cargos]

(* validate_extraction(data): <<"return", is_valid, error_message>>, or    *)
(* <<"raise", exception>> when an expression of the body raises            *)
validate_extraction(d) ==
    LET \* d.get(key, {}): the value under the key, {} when it is absent
        getOrEmpty(key) == IF d[key][1] = "absent" THEN Json("obj", <<>>)
                           ELSE d[key]
        \* .get is an attribute of dicts only
        hasGet(v) == v[1] = "obj"
        \* v.get(key): None when the dict has no such key
        get(v, key) == IF key \notin DOMAIN v[2] \/ v[2][key][1] = "absent"
                       THEN Json("null", None)
                       ELSE v[2][key]
        \* not v
        falsy(v) == \/ v[1] = "null"
                    \/ v[1] = "str" /\ v[2] = ""
                    \/ v[1] = "num" /\ v[2] = 0
                    \/ v[1] = "obj" /\ \A k \in DOMAIN v[2] :
                                           v[2][k][1] = "absent"
        \* v <= 0 is defined between numbers only
        ordered(v) == v[1] = "num"
        origin      == getOrEmpty("origin")
        destination == getOrEmpty("destination")
        cargo       == getOrEmpty("cargo")
        weight      == get(cargo, "weight_lbs")
        pieces      == get(cargo, "pieces")
    IN  IF ~hasGet(origin) THEN <<"raise", "AttributeError">>
        ELSE IF falsy(get(origin, "zip"))
            THEN <<"return", FALSE, "Missing origin zip code">>
        ELSE IF ~hasGet(destination) THEN <<"raise", "AttributeError">>
        ELSE IF falsy(get(destination, "zip"))
            THEN <<"return", FALSE, "Missing destination zip code">>
        ELSE IF ~hasGet(cargo) THEN <<"raise", "AttributeError">>
        ELSE IF falsy(weight)
            THEN <<"return", FALSE, "Missing or invalid weight">>
        ELSE IF ~ordered(weight) THEN <<"raise", "TypeError">>
        ELSE IF weight[2] <= 0
            THEN <<"return", FALSE, "Missing or invalid weight">>
        ELSE IF falsy(pieces)
            THEN <<"return", FALSE, "Missing or invalid number of pieces">>
        ELSE IF ~ordered(pieces) THEN <<"raise", "TypeError">>
        ELSE IF pieces[2] <= 0
            THEN <<"return", FALSE, "Missing or invalid number of pieces">>
        ELSE <<"return", TRUE, "">>

ValIdle ==
    /\ data = None
    /\ validation = None

(* OAuth2 credentials (gmail_oauth_handler.py) *)

(* no handler exists; neither token.pickle nor credentials.json does *)
AuthIdle ==
    /\ token_file = None
    /\ credentials_file = FALSE
    /\ creds = None
    /\ service = None
    /\ auth_pc = "idle"

(* The agent (agent.py, email_handler.py) *)

(* iterations of the polling loop that are followed *)
MaxIterations == 4

(* config.MAX_RETRIES *)
MAX_RETRIES == 3

(* the messages of the INBOX: 1 is not a quote request, or has a Subject   *)
(* that is not a str; 2 and 3 are quote requests                            *)
EmailIds == 1..3
QuoteRequests == {2, 3}

(* no call of process_email is in progress *)
NoProcess ==
    [email |-> 0, pc |-> "none", outcome |-> "none", error_replies |-> 0,
     quote_replies |-> 0, send_reply |-> None, mark_as_read |-> {},
     returned |-> None]

(* run has not been called; the INBOX is empty *)
AgentIdle ==
    /\ continuous = FALSE
    /\ run_pc = "idle"
    /\ iteration = 0
    /\ raised = FALSE
    /\ unseen = {}
    /\ emails = <<>>
    /\ attempts = [e \in QuoteRequests |-> 0]
    /\ processed = {}
    /\ failed = {}
    /\ process = NoProcess

(* no request is being handled by create_quote *)
QuoteIdle ==
    /\ pc = "idle"
    /\ request = NoRequest
    /\ response = NoResponse
    /\ route_data = None
    /\ via = "none"
    /\ httpCalls = 0
    /\ fallbackCalls = 0
    /\ locals = None
    /\ now = <<>>
    /\ quote = None

Init ==
    /\ MAPBOX_API_KEY \in BOOLEAN
    /\ QuoteIdle
    /\ ConcIdle
    /\ ApiIdle
    /\ ValIdle
    /\ AuthIdle
    /\ AgentIdle

(* POST /api/v1/quote: create_quote calls calculate_quote, which calls      *)
(* get_mapbox_distance first                                                *)
create_quote ==
    /\ pc = "idle"
    /\ pc' = "get_mapbox_distance"
    /\ request' \in Requests
    /\ UNCHANGED <<MAPBOX_API_KEY, now, response, route_data, via, httpCalls,
                   fallbackCalls, locals, quote>>
    /\ UNCHANGED exceptQuote

(* get_mapbox_distance: if not MAPBOX_API_KEY *)
NoApiKey ==
    /\ pc = "get_mapbox_distance"
    /\ ~MAPBOX_API_KEY
    /\ route_data' = Some(Fallback[request.origin_zip, request.destination_zip])
    /\ via' = "fallback"
    /\ fallbackCalls' = fallbackCalls + 1
    /\ pc' = "calculate_quote"
    /\ UNCHANGED <<MAPBOX_API_KEY, now, request, response, httpCalls, locals, quote>>
    /\ UNCHANGED exceptQuote

(* get_mapbox_distance: a zip code is not in ZIP_DATABASE *)
ZipNotInDatabase ==
    /\ pc = "get_mapbox_distance"
    /\ MAPBOX_API_KEY
    /\ ~InDatabase(request)
    /\ route_data' = Some(Fallback[request.origin_zip, request.destination_zip])
    /\ via' = "fallback"
    /\ fallbackCalls' = fallbackCalls + 1
    /\ pc' = "calculate_quote"
    /\ UNCHANGED <<MAPBOX_API_KEY, now, request, response, httpCalls, locals, quote>>
    /\ UNCHANGED exceptQuote

(* get_mapbox_distance: requests.get(url, params=params, timeout=10) is sent *)
RequestsGet ==
    /\ pc = "get_mapbox_distance"
    /\ MAPBOX_API_KEY
    /\ InDatabase(request)
    /\ httpCalls' = httpCalls + 1
    /\ pc' = "requests_get"
    /\ UNCHANGED <<MAPBOX_API_KEY, now, request, response, route_data, via,
                   fallbackCalls, locals, quote>>
    /\ UNCHANGED exceptQuote

(* DirectionsResponse sending the request once more after a failure *)
DirectionsResponseRetry ==
    /\ pc = "requests_get"
    /\ response' \in ServiceOutcomes
    /\ \E res \in {DirectionsResult(response', request.origin_zip,
                                     request.destination_zip)} :
           IF res.used = "fallback" /\ httpCalls < 2
           THEN /\ pc' = "get_mapbox_distance"
                /\ UNCHANGED <<route_data, via, fallbackCalls>>
           ELSE /\ pc' = "calculate_quote"
                /\ route_data' = Some(res.data)
                /\ via' = res.used
                /\ fallbackCalls' = IF res.used = "fallback"
                                    THEN fallbackCalls + 1 ELSE fallbackCalls
    /\ UNCHANGED <<MAPBOX_API_KEY, now, request, httpCalls, locals, quote>>
    /\ UNCHANGED exceptQuote

(* requests.get returns or raises, and the rest of the try/except runs; an   *)
(* exception that escapes get_mapbox_distance reaches create_quote's except  *)
DirectionsResponse ==
    /\ pc = "requests_get"
    /\ response' \in ServiceOutcomes
    /\ \E res \in {DirectionsResult(response', request.origin_zip,
                                     request.destination_zip)} :
           IF res.raises
           THEN /\ pc' = "error"
                /\ UNCHANGED <<route_data, via, fallbackCalls>>
           ELSE /\ pc' = "calculate_quote"
                /\ route_data' = Some(res.data)
                /\ via' = res.used
                /\ fallbackCalls' = IF res.used = "fallback"
                                    THEN fallbackCalls + 1 ELSE fallbackCalls
    /\ UNCHANGED <<MAPBOX_API_KEY, now, request, httpCalls, locals, quote>>
    /\ UNCHANGED exceptQuote

(* calculate_quote computed once more after an exception *)
calculate_quote_retried ==
    /\ pc = "calculate_quote"
    /\ IF CalculateQuoteRaises(route_data[1])
       THEN /\ pc' = "get_mapbox_distance"
            /\ UNCHANGED <<locals, now, quote>>
       ELSE /\ locals' = Some(Pricing(request, route_data[1]))
            /\ \E t1 \in ClockReadings : \E t2 \in ClockReadings \cap {t1, t1 + 1} :
                   now' = <<t1, t2>>
            /\ quote' = Some(QuoteResponse(MAPBOX_API_KEY, request, route_data[1], now'))
            /\ pc' = "done"
    /\ UNCHANGED <<MAPBOX_API_KEY, request, response, route_data, via,
                   httpCalls, fallbackCalls>>
    /\ UNCHANGED exceptQuote

(* the rest of calculate_quote, and create_quote returns the quote; the    *)
(* clock is read once for quote_id and once more, no earlier and at most    *)
(* a tick later, for valid_until                                            *)
(* an exception inside calculate_quote reaches the except of create_quote,  *)
(* which raises HTTPException(status_code=500)                              *)
calculate_quote ==
    /\ pc = "calculate_quote"
    /\ IF CalculateQuoteRaises(route_data[1])
       THEN /\ pc' = "error"
            /\ UNCHANGED <<locals, now, quote>>
       ELSE /\ locals' = Some(Pricing(request, route_data[1]))
            /\ \E t1 \in ClockReadings : \E t2 \in ClockReadings \cap {t1, t1 + 1} :
                   now' = <<t1, t2>>
            /\ quote' = Some(QuoteResponse(MAPBOX_API_KEY, request, route_data[1], now'))
            /\ pc' = "done"
    /\ UNCHANGED <<MAPBOX_API_KEY, request, response, route_data, via,
                   httpCalls, fallbackCalls>>
    /\ UNCHANGED exceptQuote

(* the response has been sent: the request's frame is gone and the service  *)
(* waits for the next request                                               *)
RequestDone ==
    /\ pc \in {"done", "error"}
    /\ pc' = "idle"
    /\ request' = NoRequest
    /\ response' = NoResponse
    /\ route_data' = None
    /\ via' = "none"
    /\ httpCalls' = 0
    /\ fallbackCalls' = 0
    /\ locals' = None
    /\ now' = <<>>
    /\ quote' = None
    /\ UNCHANGED MAPBOX_API_KEY
    /\ UNCHANGED exceptQuote

Next ==
    \/ create_quote
    \/ NoApiKey
    \/ ZipNotInDatabase
    \/ RequestsGet
    \/ DirectionsResponse
    \/ calculate_quote
    \/ RequestDone

Spec == Init /\ [][Next]_vars

(* The handler is synchronous code: each step that is enabled is taken, and *)
(* requests.get(..., timeout=10) returns or raises.                         *)
HandlerStep ==
    \/ NoApiKey
    \/ ZipNotInDatabase
    \/ RequestsGet
    \/ DirectionsResponse
    \/ calculate_quote

Fairness == WF_vars(HandlerStep)

FairSpec == Spec /\ Fairness

---------------------------------------------------------------------------
(* The threads of the server, each running create_quote on its own request *)

(* generate_static_map_url reading the dict as it is at the call *)
StaticMapUrlIn(key, db, origin_zip, dest_zip, route_geometry) ==
    IF ~key THEN None
    ELSE IF origin_zip \notin DOMAIN db \/ dest_zip \notin DOMAIN db
    THEN None
    ELSE LET origin   == db[origin_zip]
             dest     == db[dest_zip]
             max_diff == Max(Abs(origin.lon - dest.lon), Abs(origin.lat - dest.lat))
         IN  Some([markers |-> <<origin, dest>>,
                   path    |-> route_geometry # None /\ key,
                   center  |-> [lon |-> SDiv(origin.lon + dest.lon, 2),
                                lat |-> SDiv(origin.lat + dest.lat, 2)],
                   zoom    |-> Zoom(max_diff)])

(* a thread of the pool is given a request: create_quote calls               *)
(* calculate_quote, which calls get_mapbox_distance                          *)
thread_create_quote(t) ==
    /\ threads[t].pc = "idle"
    /\ \E req \in ThreadRequests :
           threads' = [threads EXCEPT ![t] = [IdleFrame EXCEPT
                                                 !.pc = "get_mapbox_distance",
                                                 !.request = req]]
    /\ UNCHANGED <<MAPBOX_API_KEY, zip_database, exceptConc>>

(* thread_get_mapbox_distance adding a row to ZIP_DATABASE for a code it     *)
(* did not find                                                              *)
thread_get_mapbox_distance_caching(t) ==
    /\ threads[t].pc = "get_mapbox_distance"
    /\ LET req == threads[t].request
           asked == {req.origin_zip, req.destination_zip}
       IN  IF ~MAPBOX_API_KEY \/ ~(asked \subseteq DOMAIN zip_database)
           THEN /\ threads' = [threads EXCEPT
                      ![t].route_data = Some(FallbackIn(zip_database, req.origin_zip,
                                                        req.destination_zip)),
                      ![t].pc = "calculate_quote"]
                /\ zip_database' = [z \in DOMAIN zip_database \cup asked |->
                                       IF z \in DOMAIN zip_database THEN zip_database[z]
                                       ELSE [lat |-> 0, lon |-> 0]]
           ELSE /\ threads' = [threads EXCEPT ![t].pc = "requests_get"]
                /\ UNCHANGED zip_database
    /\ UNCHANGED <<MAPBOX_API_KEY, exceptConc>>

(* get_mapbox_distance up to requests.get: the credential is read, both     *)
(* codes are looked up in the dict, and without either the fallback runs    *)
thread_get_mapbox_distance(t) ==
    /\ threads[t].pc = "get_mapbox_distance"
    /\ LET req == threads[t].request
           asked == {req.origin_zip, req.destination_zip}
       IN  IF ~MAPBOX_API_KEY \/ ~(asked \subseteq DOMAIN zip_database)
           THEN threads' = [threads EXCEPT
                    ![t].route_data = Some(FallbackIn(zip_database, req.origin_zip,
                                                      req.destination_zip)),
                    ![t].pc = "calculate_quote"]
           ELSE threads' = [threads EXCEPT ![t].pc = "requests_get"]
    /\ UNCHANGED <<MAPBOX_API_KEY, zip_database, exceptConc>>

(* requests.get returns or raises in this thread and the rest of the        *)
(* try/except of get_mapbox_distance runs                                   *)
thread_requests_get(t) ==
    /\ threads[t].pc = "requests_get"
    /\ \E resp \in ThreadOutcomes :
         \E res \in {DirectionsResult(resp, threads[t].request.origin_zip,
                                      threads[t].request.destination_zip)} :
           threads' = [threads EXCEPT
               ![t].response = resp,
               ![t].route_data =
                   IF res.raises THEN None
                   ELSE IF res.used = "fallback"
                   THEN Some(FallbackIn(zip_database, threads[t].request.origin_zip,
                                        threads[t].request.destination_zip))
                   ELSE Some(res.data),
               ![t].pc = IF res.raises THEN "error" ELSE "calculate_quote"]
    /\ UNCHANGED <<MAPBOX_API_KEY, zip_database, exceptConc>>

(* the rest of calculate_quote in this thread; generate_static_map_url      *)
(* reads the credential and the dict once more                              *)
thread_calculate_quote(t) ==
    /\ threads[t].pc = "calculate_quote"
    /\ LET req == threads[t].request
           rd  == threads[t].route_data[1]
       IN  IF CalculateQuoteRaises(rd)
           THEN threads' = [threads EXCEPT ![t].pc = "error"]
           ELSE \E readings \in ThreadReadings :
                  threads' = [threads EXCEPT
                      ![t].now = readings,
                      ![t].quote = Some([QuoteResponse(MAPBOX_API_KEY, req, rd, readings)
                                           EXCEPT !.route_map_url =
                                               StaticMapUrlIn(MAPBOX_API_KEY, zip_database,
                                                              req.origin_zip,
                                                              req.destination_zip,
                                                              rd.route_geometry)]),
                      ![t].pc = "done"]
    /\ UNCHANGED <<MAPBOX_API_KEY, zip_database, exceptConc>>

(* the thread has sent its response and goes back to the pool *)
thread_return(t) ==
    /\ threads[t].pc \in {"done", "error"}
    /\ threads' = [threads EXCEPT ![t] = IdleFrame]
    /\ UNCHANGED <<MAPBOX_API_KEY, zip_database, exceptConc>>

ConcNext ==
    \E t \in Threads :
        \/ thread_create_quote(t)
        \/ thread_get_mapbox_distance(t)
        \/ thread_requests_get(t)
        \/ thread_calculate_quote(t)
        \/ thread_return(t)

ConcSpec == Init /\ [][ConcNext]_vars

---------------------------------------------------------------------------
(* POST /api/v1/quote from the body to the response *)

(* a client posts a body *)
post_quote ==
    /\ api_pc = "idle"
    /\ body' \in Bodies
    /\ api_pc' = "validate"
    /\ UNCHANGED <<MAPBOX_API_KEY, status_code, api_quote, calculate_quote_calls,
                   exceptApi>>

(* the server validates the body against QuoteRequest: it answers 422       *)
(* itself when the validation fails and calls create_quote otherwise        *)
request_validation ==
    /\ api_pc = "validate"
    /\ IF QuoteRequestValid(body)
       THEN /\ api_pc' = "create_quote"
            /\ UNCHANGED status_code
       ELSE /\ api_pc' = "sent"
            /\ status_code' = 422
    /\ UNCHANGED <<MAPBOX_API_KEY, body, api_quote, calculate_quote_calls, exceptApi>>

(* create_quote on the validated request: the quote with status 200, or     *)
(* status 500 when calculate_quote raises                                   *)
api_create_quote ==
    /\ api_pc = "create_quote"
    /\ calculate_quote_calls' = calculate_quote_calls + 1
    /\ \E resp \in ThreadOutcomes, readings \in ThreadReadings :
         \E q \in {QuoteAlone(MAPBOX_API_KEY, QuoteRequestOf(body), resp, readings)} :
            /\ api_quote' = q
            /\ status_code' = IF q = None THEN 500 ELSE 200
    /\ api_pc' = "sent"
    /\ UNCHANGED <<MAPBOX_API_KEY, body, exceptApi>>

(* the response has been sent *)
response_sent ==
    /\ api_pc = "sent"
    /\ body' = NoBody
    /\ api_pc' = "idle"
    /\ status_code' = 0
    /\ api_quote' = None
    /\ calculate_quote_calls' = 0
    /\ UNCHANGED <<MAPBOX_API_KEY, exceptApi>>

ApiNext ==
    \/ post_quote
    \/ request_validation
    \/ api_create_quote
    \/ response_sent

ApiSpec == Init /\ [][ApiNext]_vars

---------------------------------------------------------------------------
(* llm_extractor.py run as a script: a dict comes back from the            *)
(* extraction, then validate_extraction is applied to it                    *)
main_extract_shipment_details ==
    /\ data = None
    /\ \E d \in ExtractedData : data' = Some(d)
    /\ UNCHANGED <<validation, exceptVal>>

main_validate_extraction ==
    /\ data # None
    /\ validation = None
    /\ validation' = validate_extraction(data[1])
    /\ UNCHANGED <<data, exceptVal>>

(* the script ends; the next run starts afresh *)
main_exit ==
    /\ validation # None
    /\ data' = None
    /\ validation' = None
    /\ UNCHANGED exceptVal

ValNext ==
    \/ main_extract_shipment_details
    \/ main_validate_extraction
    \/ main_exit

ValidationSpec == Init /\ [][ValNext]_vars

(* Between two runs of the program the two files are what the user and     *)
(* earlier runs left: credentials.json downloaded or not, token.pickle     *)
(* absent or holding credentials with or without a token, with no expiry,  *)
(* an expiry that has passed or one that has not, with or without a        *)
(* refresh token                                                            *)
token_pickle_and_credentials_json ==
    /\ auth_pc = "idle"
    /\ credentials_file' \in BOOLEAN
    /\ token_file' \in Optional([token : BOOLEAN,
                                expiry : {"none", "past", "future"},
                                refresh_token : BOOLEAN])
    /\ UNCHANGED <<creds, service, auth_pc, exceptAuth>>

(* __init__ and the first step of authenticate: the saved credentials are  *)
(* loaded when token.pickle exists                                          *)
authenticate_load ==
    /\ auth_pc = "idle"
    /\ creds' = token_file
    /\ service' = None
    /\ auth_pc' = "loaded"
    /\ UNCHANGED <<token_file, credentials_file, exceptAuth>>

(* if not self.creds or not self.creds.valid: credentials that are expired *)
(* and carry a refresh token are refreshed; the refresh either succeeds or *)
(* raises, and then creds is set to None                                    *)
authenticate_refresh ==
    /\ auth_pc = "loaded"
    /\ LET valid   == creds[1].token /\ creds[1].expiry # "past"
           expired == creds[1].expiry = "past"
       IN  IF creds # None /\ valid
               THEN /\ auth_pc' = "build"
                    /\ creds' = creds
           ELSE IF creds # None /\ expired /\ creds[1].refresh_token
               THEN /\ auth_pc' = "flow"
                    /\ \/ creds' = Some([token |-> TRUE, expiry |-> "future",
                                         refresh_token |-> TRUE])
                       \/ creds' = None
           ELSE /\ auth_pc' = "flow"
                /\ creds' = creds
    /\ UNCHANGED <<token_file, credentials_file, service, exceptAuth>>

(* if not self.creds: FileNotFoundError without credentials.json; else the *)
(* interactive flow, which returns fresh credentials that are pickled into *)
(* token.pickle, or raises                                                  *)
authenticate_flow ==
    /\ auth_pc = "flow"
    /\ IF creds # None
           THEN /\ auth_pc' = "build"
                /\ UNCHANGED <<creds, token_file>>
       ELSE IF ~credentials_file
           THEN /\ auth_pc' = "raised"
                /\ UNCHANGED <<creds, token_file>>
       ELSE \/ /\ auth_pc' = "raised"
               /\ UNCHANGED <<creds, token_file>>
            \/ \E refresh_token \in BOOLEAN :
                   /\ creds' = Some([token |-> TRUE, expiry |-> "future",
                                     refresh_token |-> refresh_token])
                   /\ token_file' = creds'
                   /\ auth_pc' = "build"
    /\ UNCHANGED <<credentials_file, service, exceptAuth>>

(* build('gmail', 'v1', credentials=self.creds), which may raise *)
authenticate_build ==
    /\ auth_pc = "build"
    /\ \/ /\ service' = Some(creds)
          /\ auth_pc' = "returned"
       \/ /\ service' = None
          /\ auth_pc' = "raised"
    /\ UNCHANGED <<token_file, credentials_file, creds, exceptAuth>>

(* the program ends; the files stay *)
authenticate_exit ==
    /\ auth_pc \in {"returned", "raised"}
    /\ creds' = None
    /\ service' = None
    /\ auth_pc' = "idle"
    /\ UNCHANGED <<token_file, credentials_file, exceptAuth>>

AuthNext ==
    \/ token_pickle_and_credentials_json
    \/ authenticate_load
    \/ authenticate_refresh
    \/ authenticate_flow
    \/ authenticate_build
    \/ authenticate_exit

AuthSpec == Init /\ [][AuthNext]_vars

(* Between two runs of the agent the INBOX is what its users left: any of  *)
(* the messages may be unread                                               *)
inbox_changes ==
    /\ run_pc \in {"idle", "returned"}
    /\ unseen' \in SUBSET EmailIds
    /\ continuous' = FALSE
    /\ run_pc' = "idle"
    /\ iteration' = 0
    /\ raised' = FALSE
    /\ emails' = <<>>
    /\ attempts' = [e \in QuoteRequests |-> 0]
    /\ processed' = {}
    /\ failed' = {}
    /\ process' = NoProcess
    /\ UNCHANGED exceptAgent

(* run(continuous): iteration = 0, then the first pass of while True *)
run ==
    /\ run_pc = "idle"
    /\ continuous' \in BOOLEAN
    /\ iteration' = 1
    /\ run_pc' = "fetch"
    /\ UNCHANGED <<raised, unseen, emails, attempts, processed, failed,
                   process, exceptAgent>>

(* EmailHandler.fetch_unread_emails: the unread messages in mailbox order; *)
(* only the most recent max_emails are fetched, a message whose fetch      *)
(* fails is left out, and an IMAP error ends the fetch with what was       *)
(* fetched so far. It catches every exception itself                       *)
fetch_unread_emails ==
    /\ run_pc = "fetch"
    /\ \E fetched \in SUBSET unseen :
           \E batch \in [1..Cardinality(fetched) -> fetched] :
               /\ \A i, j \in DOMAIN batch : i < j => batch[i] < batch[j]
               /\ emails' = batch
    /\ raised' = FALSE
    /\ processed' = {}
    /\ process' = NoProcess
    /\ run_pc' = "loop"
    /\ UNCHANGED <<continuous, iteration, unseen, attempts, failed,
                   exceptAgent>>

(* is_quote_request with the attempts of a message bounded by              *)
(* config.MAX_RETRIES: a message that was tried that often is skipped      *)
is_quote_request_bounded_by_max_retries ==
    /\ run_pc = "loop"
    /\ process.pc \in {"none", "returned"}
    /\ IF emails = <<>>
           THEN /\ run_pc' = "end"
                /\ UNCHANGED <<raised, emails, attempts, processed, process>>
       ELSE IF Head(emails) \in QuoteRequests /\ attempts[Head(emails)] < MAX_RETRIES
           THEN /\ process' = [NoProcess EXCEPT !.email = Head(emails),
                                                !.pc = "extract"]
                /\ attempts' = [attempts EXCEPT ![Head(emails)] = @ + 1]
                /\ processed' = processed \cup {Head(emails)}
                /\ emails' = Tail(emails)
                /\ UNCHANGED <<run_pc, raised>>
       ELSE /\ emails' = Tail(emails)
            /\ UNCHANGED <<run_pc, raised, attempts, processed, process>>
    /\ UNCHANGED <<continuous, iteration, unseen, failed, exceptAgent>>

(* for email_data in emails: is_quote_request(subject, body) is True for a *)
(* quote request, and process_email is called; for another message it is   *)
(* False, or raises TypeError when the Subject is a Header and not a str,  *)
(* which ends the try block. The loop is left when emails is exhausted     *)
is_quote_request ==
    /\ run_pc = "loop"
    /\ process.pc \in {"none", "returned"}
    /\ IF emails = <<>>
           THEN /\ run_pc' = "end"
                /\ UNCHANGED <<raised, emails, attempts, processed, process>>
       ELSE IF Head(emails) \in QuoteRequests
           THEN /\ process' = [NoProcess EXCEPT !.email = Head(emails),
                                                !.pc = "extract"]
                /\ attempts' = [attempts EXCEPT ![Head(emails)] = @ + 1]
                /\ processed' = processed \cup {Head(emails)}
                /\ emails' = Tail(emails)
                /\ UNCHANGED <<run_pc, raised>>
       ELSE \/ /\ emails' = Tail(emails)
               /\ UNCHANGED <<run_pc, raised, attempts, processed, process>>
            \/ /\ raised' = TRUE
               /\ emails' = <<>>
               /\ run_pc' = "end"
               /\ UNCHANGED <<attempts, processed, process>>
    /\ UNCHANGED <<continuous, iteration, unseen, failed, exceptAgent>>

(* self.email_handler.send_error_reply(sender, subject, ...) followed by   *)
(* return False: the frame of process_email after them. send_error_reply   *)
(* returns what send_reply returned, which is not looked at                 *)
send_error_reply(frame, outcome) ==
    [frame EXCEPT !.error_replies = @ + 1,
                  !.outcome = outcome,
                  !.returned = Some(FALSE),
                  !.pc = "returned"]

(* Step 1: extract_shipment_details(body) returns a dict, returns None or  *)
(* raises (Groq(...) is outside its try block)                              *)
process_email_extract ==
    /\ process.pc = "extract"
    /\ \/ process' = [process EXCEPT !.pc = "validate"]
       \/ process' = send_error_reply(process, "extraction failed")
       \/ process' = [process EXCEPT !.pc = "except"]
    /\ failed' = IF process'.returned = Some(FALSE)
                     THEN failed \cup {process.email}
                 ELSE IF process'.returned = Some(TRUE)
                     THEN failed \ {process.email}
                 ELSE failed
    /\ UNCHANGED <<continuous, run_pc, iteration, raised, unseen, emails,
                   attempts, processed, exceptAgent>>

(* Step 2: validate_extraction(shipment_data), then the log line that      *)
(* reads shipment_data['origin']['city'] and ['destination']['city']       *)
process_email_validate ==
    /\ process.pc = "validate"
    /\ \E origin \in {Json("null", None),
                      Json("obj", [zip |-> Json("null", None)]),
                      Json("obj", [zip |-> Json("str", "90021")])},
          weight_lbs \in {Json("num", 0), Json("num", 800),
                          Json("str", "800 lbs")},
          city \in BOOLEAN :
           LET shipment_data ==
                   [origin |-> origin,
                    destination |-> Json("obj", [zip |-> Json("str", "60601")]),
                    cargo |-> Json("obj", [weight_lbs |-> weight_lbs,
                                            pieces |-> Json("num", 2),
                                            dimensions |-> Json("null", None)])]
               result == validate_extraction(shipment_data)
           IN  IF result[1] = "raise"
                   THEN process' = [process EXCEPT !.pc = "except"]
               ELSE IF ~result[2]
                   THEN process' = send_error_reply(process, "validation failed")
               ELSE IF ~city
                   THEN process' = [process EXCEPT !.pc = "except"]
               ELSE process' = [process EXCEPT !.pc = "api"]
    /\ failed' = IF process'.returned = Some(FALSE)
                     THEN failed \cup {process.email}
                 ELSE IF process'.returned = Some(TRUE)
                     THEN failed \ {process.email}
                 ELSE failed
    /\ UNCHANGED <<continuous, run_pc, iteration, raised, unseen, emails,
                   attempts, processed, exceptAgent>>

(* Step 3: call_quote_api(shipment_data) returns the quote, or None on a   *)
(* status other than 200 and on any exception                               *)
process_email_call_quote_api ==
    /\ process.pc = "api"
    /\ \/ process' = [process EXCEPT !.pc = "reply"]
       \/ process' = send_error_reply(process, "quote API failed")
    /\ failed' = IF process'.returned = Some(FALSE)
                     THEN failed \cup {process.email}
                 ELSE IF process'.returned = Some(TRUE)
                     THEN failed \ {process.email}
                 ELSE failed
    /\ UNCHANGED <<continuous, run_pc, iteration, raised, unseen, emails,
                   attempts, processed, exceptAgent>>

(* process_email_send_reply with mark_as_read called before the result of  *)
(* send_reply is looked at                                                  *)
process_email_send_reply_marking_first ==
    /\ process.pc = "reply"
    /\ \/ /\ process' = [process EXCEPT !.pc = "except"]
          /\ unseen' = unseen
       \/ \E success \in BOOLEAN :
              /\ process' = [process EXCEPT
                                 !.quote_replies = @ + 1,
                                 !.send_reply = Some(success),
                                 !.mark_as_read = @ \cup {process.email},
                                 !.outcome = IF success THEN "reply sent"
                                             ELSE "reply failed",
                                 !.returned = Some(success),
                                 !.pc = "returned"]
              /\ unseen' \in {unseen, unseen \ {process.email}}
    /\ failed' = IF process'.returned = Some(FALSE)
                     THEN failed \cup {process.email}
                 ELSE IF process'.returned = Some(TRUE)
                     THEN failed \ {process.email}
                 ELSE failed
    /\ UNCHANGED <<continuous, run_pc, iteration, raised, emails, attempts,
                   processed, exceptAgent>>

(* Steps 4 and 5: generate_quote_pdf and create_reply_body may raise;      *)
(* send_reply(sender, reply_subject, reply_body, pdf_path) returns True or *)
(* False and never raises. On True mark_as_read(email_data['id']) stores   *)
(* \Seen, or fails and prints, and process_email returns True; on False it *)
(* returns False                                                            *)
process_email_send_reply ==
    /\ process.pc = "reply"
    /\ \/ /\ process' = [process EXCEPT !.pc = "except"]
          /\ unseen' = unseen
       \/ /\ process' = [process EXCEPT !.quote_replies = @ + 1,
                                        !.send_reply = Some(TRUE),
                                        !.mark_as_read = @ \cup {process.email},
                                        !.outcome = "reply sent",
                                        !.returned = Some(TRUE),
                                        !.pc = "returned"]
          /\ unseen' \in {unseen, unseen \ {process.email}}
       \/ /\ process' = [process EXCEPT !.quote_replies = @ + 1,
                                        !.send_reply = Some(FALSE),
                                        !.outcome = "reply failed",
                                        !.returned = Some(FALSE),
                                        !.pc = "returned"]
          /\ unseen' = unseen
    /\ failed' = IF process'.returned = Some(FALSE)
                     THEN failed \cup {process.email}
                 ELSE IF process'.returned = Some(TRUE)
                     THEN failed \ {process.email}
                 ELSE failed
    /\ UNCHANGED <<continuous, run_pc, iteration, raised, emails, attempts,
                   processed, exceptAgent>>

(* process_email_except re-raising after the error is logged, with no      *)
(* error reply                                                              *)
process_email_except_reraising ==
    /\ process.pc = "except"
    /\ process' = [process EXCEPT !.outcome = "exception", !.pc = "raised"]
    /\ failed' = IF process'.returned = Some(FALSE)
                     THEN failed \cup {process.email}
                 ELSE IF process'.returned = Some(TRUE)
                     THEN failed \ {process.email}
                 ELSE failed
    /\ UNCHANGED <<continuous, run_pc, iteration, raised, unseen, emails,
                   attempts, processed, exceptAgent>>

(* except Exception: the error is logged, send_error_reply is tried inside *)
(* its own try/except, and process_email returns False                      *)
process_email_except ==
    /\ process.pc = "except"
    /\ process' = send_error_reply(process, "exception")
    /\ failed' = IF process'.returned = Some(FALSE)
                     THEN failed \cup {process.email}
                 ELSE IF process'.returned = Some(TRUE)
                     THEN failed \ {process.email}
                 ELSE failed
    /\ UNCHANGED <<continuous, run_pc, iteration, raised, unseen, emails,
                   attempts, processed, exceptAgent>>

(* run_end_of_iteration with the loop left when the try block raised *)
run_end_of_iteration_leaving_on_exception ==
    /\ run_pc = "end"
    /\ IF ~continuous \/ raised
           THEN /\ run_pc' = "returned"
                /\ UNCHANGED iteration
       ELSE /\ iteration < MaxIterations
            /\ iteration' = iteration + 1
            /\ run_pc' = "fetch"
    /\ UNCHANGED <<continuous, raised, unseen, emails, attempts, processed,
                   failed, process, exceptAgent>>

(* after the try block: break when continuous is false, else sleep and     *)
(* start the next iteration                                                 *)
run_end_of_iteration ==
    /\ run_pc = "end"
    /\ IF ~continuous
           THEN /\ run_pc' = "returned"
                /\ UNCHANGED iteration
       ELSE /\ iteration < MaxIterations
            /\ iteration' = iteration + 1
            /\ run_pc' = "fetch"
    /\ UNCHANGED <<continuous, raised, unseen, emails, attempts, processed,
                   failed, process, exceptAgent>>

AgentNext ==
    \/ inbox_changes
    \/ run
    \/ fetch_unread_emails
    \/ is_quote_request
    \/ process_email_extract
    \/ process_email_validate
    \/ process_email_call_quote_api
    \/ process_email_send_reply
    \/ process_email_except
    \/ run_end_of_iteration

AgentSpec == Init /\ [][AgentNext]_vars

(* Properties *)

Resolved == pc \in {"calculate_quote", "done"}
Priced   == pc = "done"

Cent == MoneyScale \div 100

(* both codes of the request are rows of ZIP_DATABASE *)
BothKnown ==
    /\ request.origin_zip \in DOMAIN ZIP_DATABASE
    /\ request.destination_zip \in DOMAIN ZIP_DATABASE

(* C1: the unrounded total_cost of calculate_quote is exactly base_rate +    *)
(* fuel_surcharge + liftgate_fee + climate_control_fee + insurance.          *)
C1_TotalIsSumOfBreakdown ==
    Priced =>
        locals[1].total_cost = locals[1].base_rate + locals[1].fuel_surcharge
                               + locals[1].liftgate_fee
                               + locals[1].climate_control_fee
                               + locals[1].insurance

C1_Witness ==
    /\ Priced
    /\ locals[1].liftgate_fee > 0
    /\ locals[1].climate_control_fee > 0

(* C2: in every QuoteResponse the sum of the individually rounded breakdown  *)
(* fields differs from the separately rounded total_cost by at most 0.01.    *)
RoundedSum(q) ==
    q.breakdown.base_rate + q.breakdown.fuel_surcharge + q.breakdown.liftgate_fee
    + q.breakdown.climate_control_fee + q.breakdown.insurance

C2_RoundedSumWithinOneCent ==
    Priced => Abs(RoundedSum(quote[1]) - quote[1].total_cost) <= Cent

C2_Witness ==
    /\ Priced
    /\ Abs(RoundedSum(quote[1]) - quote[1].total_cost) = Cent

(* C3: base_rate = max(distance_miles * 2.0 + weight_lbs * 0.50, 500.0), so  *)
(* base_rate is never below 500.0.                                           *)
MileageAndWeight ==
    ((2 * MoneyScale) \div MileScale) * route_data[1].distance_miles
    + (MoneyScale \div (2 * PoundScale)) * request.weight_lbs

C3_BaseRateFloor ==
    Priced =>
        /\ locals[1].base_rate >= Dollars(500)
        /\ locals[1].base_rate >= MileageAndWeight
        /\ locals[1].base_rate \in {Dollars(500), MileageAndWeight}

C3_Witness ==
    /\ Priced
    /\ MileageAndWeight < Dollars(500)
    /\ locals[1].base_rate = Dollars(500)

C5_ResolverNeverRaises ==
    /\ pc = "error" => route_data # None
    /\ Resolved =>
        /\ route_data # None
        /\ route_data[1].distance_miles >= 0
        /\ route_data[1].duration_hours >= 0

C5_Witness ==
    /\ pc = "calculate_quote"
    /\ ExceptionInTry(response) = "KeyError"
    /\ route_data # None

Placeholder ==
    [distance_miles |-> Miles(1000), duration_hours |-> Hours(16),
     route_geometry |-> None]

(* C6: if either code is absent from ZIP_DATABASE the resolver returns      *)
(* exactly 1000.0 miles and 16.0 hours with no route geometry, with or      *)
(* without a credential, without calling the routing service and without    *)
(* an error.                                                                *)
C6_UnknownZipPlaceholder ==
    (pc # "idle" /\ ~BothKnown) =>
        /\ httpCalls = 0
        /\ pc \notin {"requests_get", "error"}
        /\ Resolved => route_data = Some(Placeholder)

C6_Witness ==
    /\ pc = "calculate_quote"
    /\ MAPBOX_API_KEY
    /\ request.origin_zip \in DOMAIN ZIP_DATABASE
    /\ request.destination_zip \notin DOMAIN ZIP_DATABASE
    /\ route_data = Some(Placeholder)

(* distance_miles / 60 *)
SixtyMilesPerHour(distance_miles) == MulDiv(distance_miles, HourScale, 60 * MileScale)

(* C7 as stated: whenever the fallback is taken, a code absent from the     *)
(* table included, duration_hours = distance_miles / 60.                    *)
C7_Original ==
    (Resolved /\ via = "fallback") =>
        route_data[1].duration_hours = SixtyMilesPerHour(route_data[1].distance_miles)

(* C7 amended: on service failure with both codes in the table the resolver *)
(* returns the haversine distance (radius 3959 miles) and                   *)
(* duration_hours = distance_miles / 60; when a code is absent it returns   *)
(* the placeholder of 1000.0 miles and 16.0 hours.                          *)
C7_FallbackHaversineOrPlaceholder ==
    (Resolved /\ via = "fallback") =>
        IF BothKnown
        THEN /\ route_data[1].distance_miles =
                    MulDiv(HaversineC(ZIP_DATABASE[request.origin_zip],
                                      ZIP_DATABASE[request.destination_zip]),
                           3959, TrigScale \div MileScale)
             /\ route_data[1].duration_hours =
                    SixtyMilesPerHour(route_data[1].distance_miles)
             /\ route_data[1].route_geometry = None
        ELSE route_data = Some(Placeholder)

C7_Witness ==
    /\ Resolved
    /\ via = "fallback"
    /\ response.status_code = 500
    /\ request.origin_zip = "90021"
    /\ request.destination_zip = "60601"
    /\ route_data[1].distance_miles > Miles(1655)
    /\ route_data[1].distance_miles < Miles(1830)

(* C8: the fallback is symmetric: for all codes A and B, known or unknown,  *)
(* fallback_distance_calculation(A, B) and fallback_distance_calculation(B, *)
(* A) carry the same distance_miles and the same duration_hours.            *)
C8_FallbackSymmetric ==
    (Resolved /\ via = "fallback") =>
        LET back == fallback_distance_calculation(request.destination_zip,
                                                  request.origin_zip)
        IN  /\ route_data[1].distance_miles = back.distance_miles
            /\ route_data[1].duration_hours = back.duration_hours

C8_Witness ==
    /\ Resolved
    /\ via = "fallback"
    /\ BothKnown
    /\ request.origin_zip # request.destination_zip
    /\ ZIP_DATABASE[request.origin_zip].lat < ZIP_DATABASE[request.destination_zip].lat
    /\ route_data[1].distance_miles > 0

(* HTTP 200 with a non-empty routes list *)
Status200WithRoutes(resp) ==
    resp.raised = "" /\ resp.status_code = 200 /\ resp.json_ok /\ Len(resp.routes) > 0

(* ... whose first route carries distance, duration and geometry *)
RouteUsable(resp) ==
    Status200WithRoutes(resp) /\ RouteKeys \subseteq resp.routes[1].keys

ServiceData(resp) ==
    [distance_miles |-> MetersToMiles(resp.routes[1].distance),
     duration_hours |-> SecondsToHours(resp.routes[1].duration),
     route_geometry |-> Some("geojson")]

C10_OneAttemptThenCompletes ==
    /\ [](httpCalls <= 1)
    /\ [][pc = "requests_get" => pc' \in {"calculate_quote", "error"}]_vars
    /\ (pc = "get_mapbox_distance") ~> (pc \in {"done", "error"})

C10_Witness ==
    /\ Priced
    /\ httpCalls = 1
    /\ response.raised = "Timeout"
    /\ via = "fallback"

(* C11: for a fixed pair of codes the resolver's result is the same for     *)
(* every non-success cause (missing credential, non-200 status, HTTP 200    *)
(* with an empty routes list, malformed route, network exception, timeout)  *)
(* and equals fallback_distance_calculation(origin, dest).                  *)
C11_NonSuccessCausesEquivalent ==
    (Resolved /\ ~(MAPBOX_API_KEY /\ BothKnown /\ RouteUsable(response))) =>
        /\ via = "fallback"
        /\ route_data = Some(fallback_distance_calculation(request.origin_zip,
                                                           request.destination_zip))

C11_Witness ==
    /\ Resolved
    /\ MAPBOX_API_KEY
    /\ BothKnown
    /\ ExceptionInTry(response) = "ValueError"
    /\ route_data = Some(fallback_distance_calculation(request.origin_zip,
                                                       request.destination_zip))
    /\ route_data[1].distance_miles \notin {0, Miles(1000)}

(* C12: liftgate_fee is 75.0 exactly when the literal string "liftgate" is  *)
(* an element of special_services and 0.0 otherwise; the match is           *)
(* case-sensitive and un-normalized: "Liftgate" or "lift gate" yields 0.0.  *)
C12_LiftgateLiteralMatch ==
    Priced =>
        /\ locals[1].liftgate_fee =
               IF \E i \in DOMAIN request.special_services :
                      request.special_services[i] = <<"l", "i", "f", "t", "g", "a", "t", "e">>
               THEN Dollars(75) ELSE 0
        /\ quote[1].breakdown.liftgate_fee = locals[1].liftgate_fee

C12_Witness ==
    /\ Priced
    /\ request.special_services = <<Liftgate, lift_gate>>
    /\ quote[1].breakdown.liftgate_fee = 0

(* C13: climate_control_fee is 150.0 exactly when some element of           *)
(* special_services, lower-cased and with spaces replaced by underscores,   *)
(* equals "climate_control" (so "Climate Control" matches), and 0.0         *)
(* otherwise.                                                               *)
C13_ClimateControlNormalizedMatch ==
    Priced =>
        /\ locals[1].climate_control_fee =
               IF \E i \in DOMAIN request.special_services :
                      Replace(Lower(request.special_services[i]), " ", "_")
                          = <<"c", "l", "i", "m", "a", "t", "e", "_",
                              "c", "o", "n", "t", "r", "o", "l">>
               THEN Dollars(150) ELSE 0
        /\ (\E i \in DOMAIN request.special_services :
               request.special_services[i] = <<"C", "l", "i", "m", "a", "t", "e", " ",
                                               "C", "o", "n", "t", "r", "o", "l">>)
               => locals[1].climate_control_fee = Dollars(150)
        /\ (\A i \in DOMAIN request.special_services :
               request.special_services[i] \in {liftgate, Liftgate, lift_gate})
               => locals[1].climate_control_fee = 0
        /\ quote[1].breakdown.climate_control_fee = locals[1].climate_control_fee

C13_Witness ==
    /\ Priced
    /\ request.special_services = <<Climate_Control>>
    /\ quote[1].breakdown.climate_control_fee = Dollars(150)

(* some special service, normalized, equals "climate_control" *)
ClimateControlRequested ==
    \E i \in DOMAIN request.special_services :
        Replace(Lower(request.special_services[i]), " ", "_") = climate_control

(* C14: equipment_type is decided in strict priority order: "flatbed"       *)
(* whenever weight_lbs > 10000 regardless of special_services; otherwise    *)
(* "reefer" when a normalized special service equals "climate_control";     *)
(* otherwise "dry_van" (weight exactly 10000 is not flatbed; a liftgate-only *)
(* 800 lb shipment is dry_van).                                             *)
C14_EquipmentPriority ==
    Priced =>
        /\ quote[1].equipment_type =
               IF request.weight_lbs > Pounds(10000) THEN "flatbed"
               ELSE IF ClimateControlRequested THEN "reefer"
               ELSE "dry_van"
        /\ request.weight_lbs = Pounds(10000) => quote[1].equipment_type # "flatbed"
        /\ (request.weight_lbs = Pounds(800) /\ request.special_services = <<liftgate>>)
               => quote[1].equipment_type = "dry_van"

C14_Witness ==
    /\ Priced
    /\ request.weight_lbs = Pounds(10000)
    /\ request.special_services = <<liftgate, Climate_Control>>
    /\ quote[1].equipment_type = "reefer"

(* C15: fuel_surcharge is 15% of the base_rate after the 500.0 floor has    *)
(* been applied, never of the un-floored mileage and weight sum, so         *)
(* fuel_surcharge >= 75.0 in every quote.                                   *)
C15_FuelSurchargeOfFlooredBase ==
    Priced =>
        /\ locals[1].fuel_surcharge = MulDiv(locals[1].base_rate, 15, 100)
        /\ locals[1].fuel_surcharge >= Dollars(75)
        /\ quote[1].breakdown.fuel_surcharge >= Dollars(75)
        /\ MileageAndWeight <= Dollars(500) => locals[1].fuel_surcharge = Dollars(75)

C15_Witness ==
    /\ Priced
    /\ MileageAndWeight < Dollars(500)
    /\ MulDiv(MileageAndWeight, 15, 100) < Dollars(75)
    /\ quote[1].breakdown.fuel_surcharge = Dollars(75)

(* C16: insurance = ((weight_lbs / 100) * 5000) * 0.025, i.e. 1.25 per      *)
(* pound; it depends only on the weight and is unaffected by distance,      *)
(* special services or the base-rate floor.                                 *)
C16_InsurancePerPound ==
    Priced =>
        /\ locals[1].insurance =
               request.weight_lbs * ((5 * MoneyScale) \div (4 * PoundScale))
        /\ quote[1].breakdown.insurance = Round(locals[1].insurance, Cent)

C16_Witness ==
    /\ Priced
    /\ request.weight_lbs = 1
    /\ request.special_services # <<>>
    /\ locals[1].base_rate = Dollars(500)
    /\ locals[1].insurance = MoneyScale \div 8

(* C17: quote_id is the fixed prefix "QT-" followed by the creation time    *)
(* formatted to second precision; two quotes receive distinct quote_ids if  *)
(* and only if their creation times fall in different clock seconds, so     *)
(* quotes created within the same second share one quote_id.                *)
C17_QuoteIdSecondPrecision ==
    Priced =>
        /\ SubSeq(quote[1].quote_id, 1, 3) = <<"Q", "T", "-">>
        /\ quote[1].quote_id = QuoteId(now[1])
        /\ \A t \in ClockReadings :
               (QuoteId(t) # quote[1].quote_id)
                   <=> (t \div TicksPerSecond # now[1] \div TicksPerSecond)

C17_Witness ==
    /\ Priced
    /\ \E t \in ClockReadings : t # now[1] /\ QuoteId(t) = quote[1].quote_id
    /\ \E t \in ClockReadings : QuoteId(t) # quote[1].quote_id

(* max(|lon difference|, |lat difference|) between the codes of the request *)
Span ==
    LET o == ZIP_DATABASE[request.origin_zip]
        d == ZIP_DATABASE[request.destination_zip]
        lon_diff == IF o.lon >= d.lon THEN o.lon - d.lon ELSE d.lon - o.lon
        lat_diff == IF o.lat >= d.lat THEN o.lat - d.lat ELSE d.lat - o.lat
    IN  IF lon_diff >= lat_diff THEN lon_diff ELSE lat_diff

(* spans from 0 to 20 degrees in steps of half a degree *)
SpanGrid == [k \in 0..40 |-> k * (CoordScale \div 2)]

(* C18: the map zoom level is a function of span = max(|lon difference|,    *)
(* |lat difference|) between origin and destination: span < 1 gives 8,      *)
(* 1 <= span < 3 gives 6, 3 <= span < 7 gives 5, 7 <= span < 15 gives 4,    *)
(* span >= 15 gives 3; the result is always in {3,4,5,6,8} and is           *)
(* non-increasing in span.                                                  *)
C18_ZoomTiers ==
    /\ (Priced /\ quote[1].route_map_url # None) =>
           /\ quote[1].route_map_url[1].zoom \in {3, 4, 5, 6, 8}
           /\ quote[1].route_map_url[1].zoom =
                  CASE Span < Degrees(1) -> 8
                    [] Span >= Degrees(1) /\ Span < Degrees(3) -> 6
                    [] Span >= Degrees(3) /\ Span < Degrees(7) -> 5
                    [] Span >= Degrees(7) /\ Span < Degrees(15) -> 4
                    [] Span >= Degrees(15) -> 3
    /\ \A k \in 1..40 : Zoom(SpanGrid[k - 1]) >= Zoom(SpanGrid[k])
    /\ \A k \in 0..40 : Zoom(SpanGrid[k]) \in {3, 4, 5, 6, 8}
    /\ Zoom(Degrees(1) - 1) = 8 /\ Zoom(Degrees(1)) = 6
    /\ Zoom(Degrees(3) - 1) = 6 /\ Zoom(Degrees(3)) = 5
    /\ Zoom(Degrees(7) - 1) = 5 /\ Zoom(Degrees(7)) = 4
    /\ Zoom(Degrees(15) - 1) = 4 /\ Zoom(Degrees(15)) = 3

C18_Witness ==
    /\ Priced
    /\ quote[1].route_map_url # None
    /\ request.origin_zip # request.destination_zip
    /\ Span >= Degrees(1)
    /\ Span < Degrees(3)
    /\ quote[1].route_map_url[1].zoom = 6

(* C19: failure to obtain a map URL never fails the quote: with no          *)
(* credential or with a code absent from ZIP_DATABASE                       *)
(* generate_static_map_url returns None and calculate_quote still returns a *)
(* complete quote with route_map_url omitted; route_map_url is present      *)
(* exactly when a credential is configured and both codes are known.        *)
C19_MapUrlOptional ==
    /\ (pc # "idle" /\ ~(MAPBOX_API_KEY /\ BothKnown)) => pc # "error"
    /\ Priced =>
           /\ (quote[1].route_map_url # None) <=> (MAPBOX_API_KEY /\ BothKnown)
           /\ quote[1].total_cost >= Dollars(500)
           /\ quote[1].transit_days \in 1..7
           /\ quote[1].equipment_type \in {"flatbed", "reefer", "dry_van"}

C19_Witness ==
    /\ Priced
    /\ MAPBOX_API_KEY
    /\ request.destination_zip \notin DOMAIN ZIP_DATABASE
    /\ quote[1].route_map_url = None
    /\ quote[1].total_cost > 0

(* the fields of QuoteResponse and of CostBreakdown *)
QuoteFields ==
    {"quote_id", "total_cost", "breakdown", "transit_days", "equipment_type",
     "valid_until", "terms", "distance_miles", "duration_hours", "route_map_url"}

BreakdownFields ==
    {"base_rate", "fuel_surcharge", "liftgate_fee", "insurance", "climate_control_fee"}

(* C20: a quote request ends in exactly one of two outcomes: a fully         *)
(* assembled QuoteResponse with every field set, or an internal error       *)
(* (HTTP 500) with no quote fields; an exception raised inside              *)
(* calculate_quote produces the error outcome and the computation is not    *)
(* retried.                                                                 *)
C20_QuoteOrInternalError ==
    /\ [](pc = "done" => /\ quote # None
                         /\ DOMAIN quote[1] = QuoteFields
                         /\ DOMAIN quote[1].breakdown = BreakdownFields
                         /\ Len(quote[1].quote_id) > 3
                         /\ quote[1].valid_until > now[2])
    /\ [](pc # "done" => quote = None)
    /\ [][pc = "calculate_quote" => pc' \in {"done", "error"}]_vars
    /\ [][(pc = "calculate_quote" /\ route_data[1].duration_hours = Infinity)
              => (pc' = "error" /\ quote' = None)]_vars
    /\ [][pc = "error" => (pc' = "idle" /\ httpCalls <= 1)]_vars

C20_Witness ==
    /\ pc = "error"
    /\ response.routes = <<UnboundedRoute>>
    /\ route_data[1].duration_hours = Infinity
    /\ quote = None

(* C21: no quote operation writes ZIP_DATABASE or MAPBOX_API_KEY, the only   *)
(* state the requests share, and under every interleaving of the threads a   *)
(* request's breakdown, total_cost, equipment_type, transit_days and         *)
(* distance are those the same request yields when handled alone with the    *)
(* same answer of the Directions API (and it fails only if it fails alone).  *)
C21_ThreadsIsolated ==
    /\ [][zip_database' = zip_database /\ MAPBOX_API_KEY' = MAPBOX_API_KEY]_vars
    /\ [](\A t \in Threads :
            threads[t].pc \in {"done", "error"} =>
              \E alone \in {QuoteAlone(MAPBOX_API_KEY, threads[t].request,
                                       threads[t].response,
                                       IF threads[t].now = <<>> THEN <<0, 0>>
                                       ELSE threads[t].now)} :
                 IF threads[t].pc = "error" THEN alone = None
                 ELSE /\ alone # None
                      /\ threads[t].quote[1].breakdown = alone[1].breakdown
                      /\ threads[t].quote[1].total_cost = alone[1].total_cost
                      /\ threads[t].quote[1].equipment_type = alone[1].equipment_type
                      /\ threads[t].quote[1].transit_days = alone[1].transit_days
                      /\ threads[t].quote[1].distance_miles = alone[1].distance_miles)

(* one thread has finished a request that went through the Directions API   *)
(* while another thread, on a different request, is still waiting for it    *)
C21_Witness ==
    /\ threads[1].pc = "done"
    /\ threads[1].response.status_code = 200
    /\ threads[2].pc = "requests_get"
    /\ threads[2].request # threads[1].request

(* a five-digit origin zip that is not a row of ZIP_DATABASE *)
UnknownOriginZip ==
    /\ body.origin_zip # None
    /\ Len(body.origin_zip[1]) = 5
    /\ \A i \in 1..5 : body.origin_zip[1][i] \in {DigitChars[d] : d \in 1..10}
    /\ body.origin_zip[1] \in DOMAIN ZipKeys => ZipKeys[body.origin_zip[1]] \in UnknownZips

(* C22: POST /api/v1/quote rejects a request whose origin zip is a          *)
(* five-digit string that is not a known location, such as "00000", with    *)
(* status 400, 404 or 422 instead of returning a quote.                     *)
C22_UnknownOriginRejected ==
    api_pc = "sent" /\ UnknownOriginZip =>
        status_code \in {400, 404, 422} /\ api_quote = None

(* the response to a body that is valid but for its unknown origin "00000"  *)
C22_Witness ==
    /\ api_pc = "sent"
    /\ UnknownOriginZip
    /\ body.destination_zip = Some(<<"6", "0", "6", "0", "1">>)
    /\ body.weight_lbs = Some(Pounds(800))
    /\ body.pieces = Some(2)
    /\ body.dimensions = Some([length |-> 48, width |-> 40, height |-> 60])

(* C23: POST /api/v1/quote answers with a 400 or 422 validation status every *)
(* request with weight_lbs <= 0 or > 50000, pieces outside 1..100, a         *)
(* non-positive dimension, a zip that is not five digits, or a missing       *)
(* required field, and calculate_quote is never run on such a request.       *)
C23_InvalidRequestsRejected ==
    LET weight == body.weight_lbs
        pieces == body.pieces
        dims   == body.dimensions
        BadZip(zip) ==
            \/ Len(zip) # 5
            \/ \E i \in 1..Len(zip) : zip[i] \notin {DigitChars[d] : d \in 1..10}
        flawed ==
            \/ \E f \in {"origin_zip", "destination_zip", "weight_lbs", "pieces",
                         "dimensions", "pickup_date", "commodity"} : body[f] = None
            \/ weight # None /\ (weight[1] <= 0 \/ weight[1] > Pounds(50000))
            \/ pieces # None /\ pieces[1] \notin 1..100
            \/ dims # None /\ (dims[1].length <= 0 \/ dims[1].width <= 0
                               \/ dims[1].height <= 0)
            \/ body.origin_zip # None /\ BadZip(body.origin_zip[1])
            \/ body.destination_zip # None /\ BadZip(body.destination_zip[1])
    IN  /\ api_pc \in {"create_quote", "sent"} /\ flawed =>
            /\ api_pc = "sent"
            /\ status_code \in {400, 422}
            /\ api_quote = None
            /\ calculate_quote_calls = 0
        /\ api_pc = "sent" /\ ~flawed => status_code \in {200, 500}

(* a body whose only flaw is a weight of zero has been answered *)
C23_Witness ==
    /\ api_pc = "sent"
    /\ body.weight_lbs = Some(0)
    /\ body.origin_zip = Some(<<"9", "0", "0", "2", "1">>)
    /\ body.destination_zip = Some(<<"6", "0", "6", "0", "1">>)
    /\ body.pieces = Some(2)
    /\ body.dimensions = Some([length |-> 48, width |-> 40, height |-> 60])
    /\ status_code = 422

(* C28: a shipment of more than 10000 lb that also requests climate control *)
(* is classified "flatbed", not "reefer", and is still charged              *)
(* climate_control_fee = 150.0: the fee follows special_services alone,     *)
(* whatever the equipment_type.                                             *)
C28_ClimateFeeOnFlatbed ==
    Priced =>
        /\ (request.weight_lbs > Pounds(10000) /\ ClimateControlRequested) =>
               /\ locals[1].equipment_type = "flatbed"
               /\ quote[1].equipment_type = "flatbed"
               /\ locals[1].climate_control_fee = Dollars(150)
               /\ quote[1].breakdown.climate_control_fee = Dollars(150)
        /\ quote[1].breakdown.climate_control_fee =
               IF ClimateControlRequested THEN Dollars(150) ELSE 0

(* a 50000 lb shipment asking for "Climate Control" has been quoted *)
C28_Witness ==
    /\ Priced
    /\ request.weight_lbs = Pounds(50000)
    /\ request.special_services = <<Climate_Control>>
    /\ quote[1].equipment_type = "flatbed"

(* C29: validate_extraction checks, in this order, that the origin zip is  *)
(* present, that the destination zip is present, that the weight is        *)
(* present and > 0 and that the number of pieces is present and > 0; it    *)
(* returns (False, message of the first failing check), or (True, "") when *)
(* all four pass, whatever else the dict holds                              *)
C29_FirstFailingCheckReturned ==
    validation # None =>
        LET d == data[1]
            present(v) == /\ v[1] \notin {"absent", "null"}
                          /\ ~(v[1] = "str" /\ v[2] = "")
            zipPresent(place) ==
                /\ place[1] = "obj"
                /\ present(place[2].zip)
            positive(key) ==
                /\ d.cargo[1] = "obj"
                /\ d.cargo[2][key][1] = "num"
                /\ d.cargo[2][key][2] > 0
        IN  validation =
                IF ~zipPresent(d.origin)
                    THEN <<"return", FALSE, "Missing origin zip code">>
                ELSE IF ~zipPresent(d.destination)
                    THEN <<"return", FALSE, "Missing destination zip code">>
                ELSE IF ~positive("weight_lbs")
                    THEN <<"return", FALSE, "Missing or invalid weight">>
                ELSE IF ~positive("pieces")
                    THEN <<"return", FALSE, "Missing or invalid number of pieces">>
                ELSE <<"return", TRUE, "">>

(* a dict whose origin is null has been validated *)
C29_Witness ==
    /\ validation # None
    /\ data[1].origin[1] = "null"

(* C30: when authenticate returns without raising, the handler holds       *)
(* valid credentials (a token that has not expired), and the Gmail service *)
(* was built with them                                                      *)
C30_ReturnsWithValidCredentials ==
    auth_pc = "returned" =>
        /\ creds # None
        /\ creds[1].token
        /\ creds[1].expiry # "past"
        /\ service = Some(creds)

(* authenticate has returned after refreshing the credentials it loaded,   *)
(* which were expired                                                       *)
C30_Witness ==
    /\ auth_pc = "returned"
    /\ token_file # None
    /\ token_file[1].expiry = "past"
    /\ creds # None
    /\ creds[1].token
    /\ creds[1].expiry = "future"

(* C24: in process_email, mark_as_read is called only for the email being  *)
(* processed and only once send_reply of the quote has returned True;      *)
(* process_email returns True exactly in that case, and on every path that *)
(* returns False mark_as_read has not been called                           *)
C24_MarkedOnlyAfterReplySent ==
    /\ process.mark_as_read # {} =>
           /\ process.mark_as_read = {process.email}
           /\ process.send_reply = Some(TRUE)
           /\ process.quote_replies = 1
    /\ process.pc = "returned" =>
           /\ process.returned \in {Some(TRUE), Some(FALSE)}
           /\ (process.returned = Some(TRUE)) <=> (process.send_reply = Some(TRUE))
           /\ process.returned = Some(TRUE) => process.mark_as_read = {process.email}
           /\ process.returned = Some(FALSE) => process.mark_as_read = {}
    /\ process.pc \notin {"none", "returned"} =>
           /\ process.returned = None
           /\ process.mark_as_read = {}

(* the reply to message 3 was sent and the message was marked as read,     *)
(* while message 2 stays unread                                             *)
C24_Witness ==
    /\ process.pc = "returned"
    /\ process.email = 3
    /\ process.returned = Some(TRUE)
    /\ process.mark_as_read = {3}
    /\ unseen = {2}

(* C25: process_email never raises; when extraction returns nothing,       *)
(* validation fails, the quote API call fails or an exception occurs       *)
(* before the reply is sent, exactly one error reply is attempted and no   *)
(* quote reply is sent; when the quote reply itself fails to send, no      *)
(* error reply is attempted                                                 *)
C25_OneErrorReplyUnlessReplyFailed ==
    /\ process.pc \in {"none", "extract", "validate", "api", "reply",
                       "except", "returned"}
    /\ process.pc = "except" =>
           /\ process.error_replies = 0
           /\ process.quote_replies = 0
    /\ process.pc = "returned" =>
           /\ process.outcome \in {"extraction failed", "validation failed",
                                   "quote API failed", "exception"} =>
                  /\ process.returned = Some(FALSE)
                  /\ process.error_replies = 1
                  /\ process.quote_replies = 0
                  /\ process.send_reply = None
           /\ process.outcome = "reply failed" =>
                  /\ process.returned = Some(FALSE)
                  /\ process.send_reply = Some(FALSE)
                  /\ process.error_replies = 0
           /\ process.returned = Some(FALSE) =>
                  process.outcome \in {"extraction failed", "validation failed",
                                       "quote API failed", "exception",
                                       "reply failed"}

(* a call ended in the exception handler with its one error reply *)
C25_Witness ==
    /\ process.pc = "returned"
    /\ process.outcome = "exception"
    /\ process.error_replies = 1
    /\ process.returned = Some(FALSE)

C27_OnePassOrForever ==
    /\ [](run_pc = "returned" => (~continuous /\ iteration = 1))
    /\ [](run_pc \in {"fetch", "loop", "end"} => iteration >= 1)
    /\ [][(run_pc = "end" /\ run_pc' # "end") =>
              IF continuous
                  THEN /\ run_pc' = "fetch"
                       /\ iteration' = iteration + 1
              ELSE /\ run_pc' = "returned"
                   /\ iteration' = iteration]_vars
    /\ [][(run_pc \in {"fetch", "loop"}) =>
              /\ iteration' = iteration
              /\ run_pc' \in {run_pc, "loop", "end"}
              /\ run_pc = "loop" => run_pc' # "fetch"]_vars

(* a single run has returned after its one iteration, whose try block      *)
(* raised                                                                   *)
C27_Witness ==
    /\ run_pc = "returned"
    /\ ~continuous
    /\ raised
    /\ iteration = 1

====
